---- MODULE Spec2Model ----
(***************************************************************************)
(* A model of pds_crawler: the HDF5 registry (load/database.py), the       *)
(* parallel downloader (utils.py) and the records transformer              *)
(* (transformer/pds_to_stac.py).                                           *)
(*                                                                         *)
(* Strings that the code inspects character by character (lower(),         *)
(* upper(), re.sub) are sequences of one-character strings.                *)
(***************************************************************************)
EXTENDS Integers, Sequences, FiniteSets, TLC

\* ------------------------------------------------------------------ bounds
MaxProducts == 2
MaxUrlId == 2
MaxUrlLen == 2
MaxList == 2

\* Python's None, one sentinel per type
NoneWord == <<"None">>
NoneInt == -1

\* ------------------------------------------------------------ characters
\* str.lower() on one character
LowerChar(c) ==
    CASE c = "M" -> "m"
      [] c = "D" -> "d"
      [] c = "V" -> "v"
      [] OTHER -> c

\* str.upper() on one character
UpperChar(c) ==
    CASE c = "m" -> "M"
      [] c = "d" -> "D"
      [] c = "v" -> "V"
      [] OTHER -> c

\* re.sub(r"[^a-zA-Z0-9_]", "_", word) on one character
SanitizeChar(c) ==
    IF c \in {"m", "M", "d", "D", "v", "V", "r", "i", "p", "_"} THEN c ELSE "_"

Lower(w) == [i \in DOMAIN w |-> LowerChar(w[i])]

Upper(w) == [i \in DOMAIN w |-> UpperChar(w[i])]

Sanitize(w) == [i \in DOMAIN w |-> SanitizeChar(w[i])]

\* ------------------------------------------------- collection descriptors
Bodies == {<<"m">>, <<"M">>}
DataSetIds == {<<"d", "-">>, <<"d", "_">>}
TheIHID == <<"r">>
TheIID == <<"i">>
ThePT == <<"p">>

\* PdsRegistryModel: the identity fields, the product count and one
\* optional attribute (MinOrbit, None when the ODE response has none).
\* from_dict never builds a descriptor with NumberProducts = 0.
Descriptors ==
    [ODEMetaDB : Bodies, IHID : {TheIHID}, IID : {TheIID}, PT : {ThePT},
     DataSetId : DataSetIds, NumberProducts : 1..MaxProducts,
     MinOrbit : {NoneInt, 1}]

\* Hdf5Storage.define_group_from
define_group_from(words) == [i \in DOMAIN words |-> Sanitize(words[i])]

\* the group of a descriptor as _save_collection computes it
CollectionGroup(d) ==
    define_group_from(<<d.ODEMetaDB, d.IHID, d.IID, d.PT, d.DataSetId>>)

\* the group of a descriptor as save_urls / load_urls compute it
UrlsGroup(d) ==
    define_group_from(<<Lower(d.ODEMetaDB), d.IHID, d.IID, d.PT, d.DataSetId>>)

\* every prefix of a group path is a group of the file (h5py creates the
\* intermediate groups)
Prefixes(p) == {SubSeq(p, 1, n) : n \in 1..Len(p)}

\* the URL lists a caller passes to save_urls
RECURSIVE SeqsUpTo(_, _)
SeqsUpTo(S, n) ==
    IF n = 0 THEN {<<>>}
    ELSE LET shorter == SeqsUpTo(S, n - 1)
         IN  shorter \cup {Append(s, x) : s \in shorter, x \in S}

UrlLists == SeqsUpTo(1..MaxUrlId, MaxUrlLen)

\* ------------------------------------------------------------- variables
VARIABLES
    h5groups,   \* the groups of pds.h5 (paths), "metadata" left out
    h5attrs,    \* group path -> attributes, for the groups that have some
    h5urls,     \* group path -> the "urls" dataset under that group
    regLast     \* the last registry call: its arguments and its result

regVars == <<h5groups, h5attrs, h5urls, regLast>>

VARIABLES
    dlDisk,      \* file name -> "absent", "partial" or "full", one directory
    dlUrls,      \* the urls argument of the running or last download call
    dlExisted,   \* the files that existed when that call was made
    dlFut,       \* url of urls_copy -> the state of its future
    dlStatus,    \* url of urls_copy -> status of the last response, 0: none
    dlRequests,  \* url of urls_copy -> GET requests sent for it in the call
    dlPhase,     \* "idle", "running", "returned", "raised", "interrupted"
    dlAgain      \* the call repeats the list of a fully successful call

dlVars ==
    <<dlDisk, dlUrls, dlExisted, dlFut, dlStatus, dlRequests, dlPhase,
      dlAgain>>

VARIABLES
    trCache,     \* collection -> the records of its cached pages, in order
    stacTree,    \* the catalogs of the STAC tree, each as its path of ids
    stacItems,   \* path of a collection -> the ids of its item links
    stacFiles,   \* the item files of the STAC directory, as paths
    trRuns,      \* the number of runs of the records transform
    trHash       \* hash() of the item ids in the interpreter of the run

trVars == <<trCache, stacTree, stacItems, stacFiles, trRuns, trHash>>

VARIABLES
    catNodes,    \* the nodes of the root catalog, in the order of their creation
    catLast,     \* the last operation on the root catalog
    etlLast      \* the last call of the ETL: its arguments and its result

VARIABLES
    lockDirs,    \* the <file>.lock directories that exist
    lockPc,      \* caller -> the file whose lock_file call it is in, or <<>>
    lockHeld     \* file -> the callers whose lock_file call returned since
                 \* the <file>.lock directory was last removed

lockVars == <<lockDirs, lockPc, lockHeld>>

VARIABLES
    discPc,      \* the step of the catalog discovery the bulk download is at
    discSleep,   \* Crawler.query is in its except clause, before a new GET
    discTodo,    \* the collections of the download call not yet started
    discCache,   \* the record files of the cache of the current collection
    discUrl,     \* the volume id of the explorer URL: "sample", "none", "true"
    discRetried, \* _load_volume_description is in its except clause
    discPath,    \* the steps taken for the current collection, with outcomes
    discFetched, \* the pages a GET was sent for, for the current collection
    discMsgs,    \* the messages published for the current collection
    discUrls,    \* catalogs_urls
    discEnd,     \* how the discovery of the current collection ended, or ""
    discBatch    \* the last batch of URLs given to the storage to download

discVars ==
    <<discPc, discSleep, discTodo, discCache, discUrl, discRetried, discPath,
      discFetched, discMsgs, discUrls, discEnd, discBatch>>

VARIABLES
    pipePc,      \* the step of the extraction of the records: "idle",
                 \* "generate", "load", "issue", "done", "raised"
    pipeColls,   \* the collections of the extraction
    pipeMode,    \* "extract", or "direct" for a download without generation
    pipeLimit,   \* nb_records_per_page
    pipeSample,  \* is_sample
    pipeIdx,     \* the collection the loop is at
    pipeUrls,    \* the urls loaded for that collection
    pipeIssued   \* collection -> the urls given to its storage to download

pipeVars ==
    <<pipePc, pipeColls, pipeMode, pipeLimit, pipeSample, pipeIdx, pipeUrls,
      pipeIssued>>

VARIABLES
    chainColls,  \* the collections one run of the records transform was given
    chainTree    \* the catalogs of the STAC tree after that run, as paths

chainVars == <<chainColls, chainTree>>

auxVars == <<lockVars, discVars, pipeVars, chainVars>>

extVars == <<catNodes, catLast, etlLast, auxVars>>

vars == <<regVars, dlVars, trVars, extVars>>

\* an empty destination directory and no download call made
InitDl ==
    /\ dlDisk = <<>>
    /\ dlUrls = <<>>
    /\ dlExisted = {}
    /\ dlFut = <<>>
    /\ dlStatus = <<>>
    /\ dlRequests = <<>>
    /\ dlPhase = "idle"
    /\ dlAgain = FALSE

NoCall ==
    [op |-> "init", ds |-> <<>>, urls |-> <<>>, body |-> NoneWord,
     dataset_id |-> NoneWord, is_saved |-> FALSE, loaded |-> {},
     loaded_urls |-> <<>>, pre |-> "na", raised |-> FALSE, again |-> FALSE,
     first_saved |-> FALSE]

\* --------------------------------------------------------- Hdf5Storage
\* a group without attributes
NoAttrs ==
    [ODEMetaDB |-> NoneWord, IHID |-> NoneWord, IID |-> NoneWord,
     PT |-> NoneWord, DataSetId |-> NoneWord, NumberProducts |-> NoneInt,
     MinOrbit |-> NoneInt]

\* PdsRegistryModel.to_hdf5: every field that is not None is written, an
\* attribute whose field is None is left as it is in the file
to_hdf5(store, d) ==
    [ODEMetaDB |-> d.ODEMetaDB, IHID |-> d.IHID, IID |-> d.IID, PT |-> d.PT,
     DataSetId |-> d.DataSetId, NumberProducts |-> d.NumberProducts,
     MinOrbit |-> IF d.MinOrbit # NoneInt THEN d.MinOrbit ELSE store.MinOrbit]

AttrsOf(attrs, g) == IF g \in DOMAIN attrs THEN attrs[g] ELSE NoAttrs

\* Hdf5Storage._has_changed
has_changed_inverted(store, d) ==
    store.NumberProducts # NoneInt /\ d.NumberProducts = store.NumberProducts
has_changed_always(store, d) == TRUE
_has_changed(store, d) ==
    ~(store.NumberProducts # NoneInt
      /\ d.NumberProducts = store.NumberProducts)

\* Hdf5Storage._save_collection on the file state <<groups, attrs>>:
\* the new file state and is_saved
_save_collection(groups, attrs, d) ==
    LET g == CollectionGroup(d)
    IN  IF g \notin groups
        THEN [groups |-> groups \cup Prefixes(g),
              attrs |-> [x \in DOMAIN attrs \cup {g} |->
                            IF x = g THEN to_hdf5(NoAttrs, d) ELSE attrs[x]],
              is_saved |-> TRUE]
        ELSE IF _has_changed(AttrsOf(attrs, g), d)
        THEN [groups |-> groups,
              attrs |-> [x \in DOMAIN attrs \cup {g} |->
                            IF x = g THEN to_hdf5(AttrsOf(attrs, g), d)
                            ELSE attrs[x]],
              is_saved |-> TRUE]
        ELSE [groups |-> groups, attrs |-> attrs, is_saved |-> FALSE]

\* which branch of _save_collection a save of d takes
PreOf(groups, attrs, d) ==
    LET g == CollectionGroup(d)
    IN  IF g \notin groups THEN "absent"
        ELSE IF AttrsOf(attrs, g).NumberProducts = NoneInt THEN "nocount"
        ELSE IF AttrsOf(attrs, g).NumberProducts = d.NumberProducts THEN "same"
        ELSE "differs"

\* the call before this one was save_collection of the same descriptor
SavedJustBefore(d) == regLast.op = "save_collection" /\ regLast.ds = <<d>>

\* Hdf5Storage.save_collection
save_collection(d) ==
    LET r == _save_collection(h5groups, h5attrs, d)
    IN  /\ h5groups' = r.groups
        /\ h5attrs' = r.attrs
        /\ regLast' = [NoCall EXCEPT !.op = "save_collection", !.ds = <<d>>,
                                     !.is_saved = r.is_saved,
                                     !.pre = PreOf(h5groups, h5attrs, d),
                                     !.again = SavedJustBefore(d),
                                     !.first_saved = SavedJustBefore(d)
                                                     /\ regLast.is_saved]
        /\ UNCHANGED h5urls

\* the loop of save_collections: is_saved = is_saved & _save_collection(...)
RECURSIVE SaveAll(_, _, _, _)
SaveAll(groups, attrs, ds, is_saved) ==
    IF ds = <<>>
    THEN [groups |-> groups, attrs |-> attrs, is_saved |-> is_saved]
    ELSE LET r == _save_collection(groups, attrs, Head(ds))
         IN  SaveAll(r.groups, r.attrs, Tail(ds), is_saved /\ r.is_saved)

\* Hdf5Storage.save_collections
save_collections(ds) ==
    LET r == SaveAll(h5groups, h5attrs, ds, TRUE)
    IN  /\ h5groups' = r.groups
        /\ h5attrs' = r.attrs
        /\ regLast' = [NoCall EXCEPT !.op = "save_collections",
                                     !.is_saved = r.is_saved]
        /\ UNCHANGED h5urls

\* PdsRegistryModel.from_dict on the attributes of a group: a field whose
\* attribute is missing takes its default; convert_dt leaves a word that is
\* neither a number nor a boolean literal as it is
from_dict(a) ==
    [ODEMetaDB |-> a.ODEMetaDB, IHID |-> a.IHID, IID |-> a.IID, PT |-> a.PT,
     DataSetId |-> a.DataSetId, NumberProducts |-> a.NumberProducts,
     MinOrbit |-> a.MinOrbit]

\* PdsRegistryModel.get_body: the body the collection belongs to
get_body(d) == d.ODEMetaDB

\* Hdf5Storage._has_attribute_in_group
_has_attribute_in_group(attrs, g) == g \in DOMAIN attrs

\* Hdf5Storage.load_collections: visititems over the groups, then the
\* filter on the body and the filter on the dataset id
load_collections_case_sensitive(groups, attrs, body, dataset_id) ==
    LET pds_collections ==
            {from_dict(attrs[g]) :
                g \in {x \in groups : _has_attribute_in_group(attrs, x)}}
        pds_registry_models ==
            {m \in pds_collections : body = NoneWord \/ get_body(m) = body}
    IN  {m \in pds_registry_models :
            dataset_id = NoneWord \/ m.DataSetId = dataset_id}
load_collections(groups, attrs, body, dataset_id) ==
    LET pds_collections ==
            {from_dict(attrs[g]) :
                g \in {x \in groups : _has_attribute_in_group(attrs, x)}}
        pds_registry_models ==
            {m \in pds_collections :
                body = NoneWord \/ Upper(get_body(m)) = Upper(body)}
    IN  {m \in pds_registry_models :
            dataset_id = NoneWord \/ Upper(m.DataSetId) = Upper(dataset_id)}

LoadCollections(body, dataset_id) ==
    /\ regLast' = [NoCall EXCEPT !.op = "load_collections", !.body = body,
                      !.dataset_id = dataset_id,
                      !.loaded = load_collections(h5groups, h5attrs, body,
                                                  dataset_id)]
    /\ UNCHANGED <<h5groups, h5attrs, h5urls>>

\* Hdf5Storage.load_urls
load_urls(urls, d) ==
    IF UrlsGroup(d) \in DOMAIN urls THEN urls[UrlsGroup(d)] ELSE <<>>

LoadUrls(d) ==
    /\ regLast' = [NoCall EXCEPT !.op = "load_urls", !.ds = <<d>>,
                                 !.loaded_urls = load_urls(h5urls, d)]
    /\ UNCHANGED <<h5groups, h5attrs, h5urls>>

\* Python's sorted() on a list of URLs
RECURSIVE Insert(_, _)
Insert(x, s) ==
    IF s = <<>> THEN <<x>>
    ELSE IF x <= Head(s) THEN <<x>> \o s
    ELSE <<Head(s)>> \o Insert(x, Tail(s))

RECURSIVE sorted(_)
sorted(s) == IF s = <<>> THEN <<>> ELSE Insert(Head(s), sorted(Tail(s)))

\* Hdf5Storage._save_urls_in_new_dataset: h5py's create_dataset raises
\* when the dataset is already in the file
_save_urls_in_new_dataset(d, urls) ==
    IF UrlsGroup(d) \in DOMAIN h5urls
    THEN /\ regLast' = [NoCall EXCEPT !.op = "save_urls", !.ds = <<d>>,
                                      !.urls = urls, !.raised = TRUE]
         /\ UNCHANGED <<h5groups, h5attrs, h5urls>>
    ELSE /\ h5groups' = h5groups \cup Prefixes(UrlsGroup(d))
         /\ h5urls' = [g \in DOMAIN h5urls \cup {UrlsGroup(d)} |->
                          IF g = UrlsGroup(d) THEN urls ELSE h5urls[g]]
         /\ regLast' = [NoCall EXCEPT !.op = "save_urls", !.ds = <<d>>,
                                      !.urls = urls]
         /\ UNCHANGED h5attrs

\* Hdf5Storage._save_urls_in_existing_dataset: the dataset was created
\* with a fixed shape and no chunks, so that h5py's resize raises
_save_urls_in_existing_dataset(d, urls) ==
    /\ regLast' = [NoCall EXCEPT !.op = "save_urls", !.ds = <<d>>,
                                 !.urls = urls, !.raised = TRUE]
    /\ UNCHANGED <<h5groups, h5attrs, h5urls>>

\* Hdf5Storage.save_urls
save_urls(d, urls) ==
    LET old_urls == load_urls(h5urls, d)
    IN  IF Len(old_urls) = 0
        THEN _save_urls_in_new_dataset(d, urls)
        ELSE IF sorted(urls) = sorted(old_urls)
        THEN /\ regLast' = [NoCall EXCEPT !.op = "save_urls", !.ds = <<d>>,
                                          !.urls = urls]
             /\ UNCHANGED <<h5groups, h5attrs, h5urls>>
        ELSE _save_urls_in_existing_dataset(d, urls)

\* ------------------------------------------- the registry specification
\* Hdf5Storage.init_storage: a new file holds the "metadata" group only
InitReg ==
    /\ h5groups = {}
    /\ h5attrs = <<>>
    /\ h5urls = <<>>
    /\ regLast = NoCall

FilterWords == {NoneWord, <<"M">>, <<"v">>}
FilterIds == {NoneWord, <<"D", "-">>}

\* the descriptors of the calls that do not read the product count
PlainDescriptors ==
    {d \in Descriptors : d.NumberProducts = 1 /\ d.MinOrbit = NoneInt}

\* the descriptors of the lists given to save_collections
ListDescriptors ==
    {d \in Descriptors : /\ d.ODEMetaDB = <<"m">>
                         /\ d.DataSetId = <<"d", "-">>
                         /\ d.NumberProducts <= 2
                         /\ d.MinOrbit = NoneInt}

\* the collections of the registry given to the records transform
TrCollections == {d \in PlainDescriptors : d.ODEMetaDB = <<"m">>}

\* a STAC directory holding the root catalog only, and no cached page
InitTr ==
    /\ trCache = [c \in TrCollections |-> <<>>]
    /\ stacTree = {}
    /\ stacItems = <<>>
    /\ stacFiles = {}
    /\ trRuns = 0
    /\ trHash = <<>>

\* no PDS3 object handled (kind, id of the node, ids of the nodes it is
\* attached under, title and description)
NoRequest ==
    [kind |-> "none", id |-> "", parents |-> <<>>, title |-> "",
     description |-> NoneWord]

\* a root catalog without children
InitCat ==
    /\ catNodes = <<>>
    /\ catLast = [op |-> "init", request |-> NoRequest, pre |-> <<>>]
    /\ etlLast = [op |-> "init"]

\* the callers of the Locking utility, at most
MaxCallers == 3

Callers == 1..MaxCallers

\* the files they lock
LockedFiles == {<<"f">>, <<"g">>}

\* the collections of a call of the bulk download of the catalogs, at most
MaxCollections == 2

\* no lock directory, no caller in lock_file; a bulk download of the
\* catalogs about to start
InitAux ==
    /\ lockDirs = {}
    /\ lockPc = [p \in Callers |-> <<>>]
    /\ lockHeld = [file \in LockedFiles |-> {}]
    /\ discPc = "Idle"
    /\ discSleep = FALSE
    /\ discTodo = MaxCollections
    /\ discCache = <<>>
    /\ discUrl = ""
    /\ discRetried = FALSE
    /\ discPath = <<>>
    /\ discFetched = {}
    /\ discMsgs = <<>>
    /\ discUrls = <<>>
    /\ discEnd = ""
    /\ discBatch = <<>>
    /\ pipePc = "idle"
    /\ pipeColls = <<>>
    /\ pipeMode = ""
    /\ pipeLimit = 1
    /\ pipeSample = FALSE
    /\ pipeIdx = 1
    /\ pipeUrls = <<>>
    /\ pipeIssued = <<>>
    /\ chainColls = <<>>
    /\ chainTree = {}

\* the state after construction: an empty registry file, empty storage
\* directories
Init == InitReg /\ InitDl /\ InitTr /\ InitCat /\ InitAux

SaveCollection ==
    /\ \E d \in Descriptors : save_collection(d)
    /\ UNCHANGED <<dlVars, trVars, extVars>>

\* the lists given to save_collections
CollectionLists == SeqsUpTo(ListDescriptors, MaxList)

SaveCollections ==
    /\ \E ds \in CollectionLists : save_collections(ds)
    /\ UNCHANGED <<dlVars, trVars, extVars>>

LoadCollectionsCall ==
    /\ \E body \in FilterWords, dataset_id \in FilterIds :
            LoadCollections(body, dataset_id)
    /\ UNCHANGED <<dlVars, trVars, extVars>>

\* generate_urls_for_one_collection of a one-page collection
SaveUrlsOnePage ==
    /\ \E d \in PlainDescriptors : save_urls(d, <<1>>)
    /\ UNCHANGED <<dlVars, trVars, extVars>>

NextReg ==
    \/ SaveCollection
    \/ SaveCollections
    \/ LoadCollectionsCall
    \/ SaveUrlsOnePage

SpecReg == Init /\ [][NextReg]_vars

\* ------------------------------------------ the URL-list specification
SaveUrls ==
    /\ \E d \in PlainDescriptors, urls \in UrlLists : save_urls(d, urls)
    /\ UNCHANGED <<dlVars, trVars, extVars>>

LoadUrlsCall ==
    /\ \E d \in PlainDescriptors : LoadUrls(d)
    /\ UNCHANGED <<dlVars, trVars, extVars>>

NextUrls ==
    \/ SaveUrls
    \/ LoadUrlsCall

SpecUrls == Init /\ [][NextUrls]_vars

\* ------------------------------------------------------- the downloader
\* the largest product count of the collection whose pages are downloaded
MaxTotal == 3

\* the number of worker threads of a download call
nb_workers == 3

\* the statuses a server answers with
Statuses == {200, 404, 502}

\* the page sizes given to generate_urls_for_one_collection
DlLimits == {1, 2}

\* the storage directory of the collection
DlDirectory == <<"s">>

Digit(n) == <<"0", "1", "2", "3", "4", "5", "6", "7", "8", "9">>[n + 1]

RECURSIVE str(_)
str(n) == IF n < 10 THEN <<Digit(n)>> ELSE str(n \div 10) \o <<Digit(n % 10)>>

\* a URL is its path (the segments) and its query (name, value pairs)
_build_request_params(target, ihid, iid, pt, offset, limit) ==
    {<<"query", <<"product">>>>, <<"target", target>>,
     <<"results", <<"copmf">>>>, <<"ihid", ihid>>, <<"iid", iid>>,
     <<"pt", pt>>, <<"offset", str(offset)>>, <<"limit", str(limit)>>,
     <<"output", <<"json">>>>}

RECURSIVE generate_all_pagination_params_below_total(_, _, _, _, _, _, _)
generate_all_pagination_params_below_total(target, ihid, iid, pt, total, offset, limit) ==
    IF offset < total
    THEN <<[target |-> target, ihid |-> ihid, iid |-> iid, pt |-> pt,
            total |-> total, pagination_start |-> offset, limit |-> limit]>>
         \o generate_all_pagination_params_below_total(
                target, ihid, iid, pt, total, offset + limit, limit)
    ELSE <<>>

RECURSIVE _generate_all_pagination_params(_, _, _, _, _, _, _)
_generate_all_pagination_params(target, ihid, iid, pt, total, offset, limit) ==
    IF offset <= total
    THEN <<[target |-> target, ihid |-> ihid, iid |-> iid, pt |-> pt,
            total |-> total, pagination_start |-> offset, limit |-> limit]>>
         \o _generate_all_pagination_params(target, ihid, iid, pt, total,
                                            offset + limit, limit)
    ELSE <<>>

_generate_urls_for_pages(all_pagination_params) ==
    [i \in DOMAIN all_pagination_params |->
        LET p == all_pagination_params[i]
        IN  [path |-> <<<<"live2">>, <<>>>>,
             query |-> _build_request_params(p.target, p.ihid, p.iid, p.pt,
                                             p.pagination_start, p.limit)]]

\* the page URLs of a collection of total products, limit products a page
generate_urls_for_one_collection(total, limit) ==
    _generate_urls_for_pages(
        _generate_all_pagination_params(Lower(<<"M">>), TheIHID, TheIID,
                                        ThePT, total, 1, limit))

\* the catalog files of a volume followed by its description file
CatalogUrls ==
    <<[path |-> <<<<"c">>, <<"M">>>>, query |-> {}],
      [path |-> <<<<"V">>>>, query |-> {}]>>

\* the url lists given to a download call: the first pages of a
\* collection, or the catalogs of its volume
Batches ==
    UNION {{SubSeq(generate_urls_for_one_collection(t, l), 1, n) :
                n \in 1..Len(generate_urls_for_one_collection(t, l))} :
           t \in 1..MaxTotal, l \in DlLimits}
    \cup {CatalogUrls}

HasParam(url, name) == \E p \in url.query : p[1] = name
Param(url, name) == (CHOOSE p \in url.query : p[1] = name)[2]
ReplaceSep(w) == [i \in DOMAIN w |-> IF w[i] = "/" THEN "_" ELSE w[i]]
basename(path) == IF path = <<>> THEN <<>> ELSE path[Len(path)]

compute_downloaded_filepath_no_offset(directory, url) ==
    directory \o <<"/">> \o
    (IF HasParam(url, "ihid")
     THEN ReplaceSep(Param(url, "target") \o <<"_">> \o Param(url, "ihid")
                     \o <<"_">> \o Param(url, "iid") \o <<"_">>
                     \o Param(url, "pt") \o <<".json">>)
     ELSE Lower(basename(url.path)))
compute_downloaded_filepath(directory, url) ==
    directory \o <<"/">> \o
    (IF HasParam(url, "ihid")
     THEN ReplaceSep(Param(url, "target") \o <<"_">> \o Param(url, "ihid")
                     \o <<"_">> \o Param(url, "iid") \o <<"_">>
                     \o Param(url, "pt") \o <<"_">> \o Param(url, "offset")
                     \o <<".json">>)
     ELSE Lower(basename(url.path)))

FileOf(url) == compute_downloaded_filepath(DlDirectory, url)

\* os.path.exists: a file being written exists
exists(disk, f) == f \in DOMAIN disk

cache_download_no_filter(disk, urls) == urls
\* the urls handed to the decorated function
cache_download(disk, urls) ==
    SelectSeq(urls, LAMBDA u : ~exists(disk, FileOf(u)))

\* Retry of the session the scrape opens, which no request goes through
requests_retry_session ==
    [retries |-> 3, backoff_factor |-> 3, status_forcelist |-> {500, 502, 504}]

\* the retries of requests.get, which opens a session of its own
get_max_retries == 0

Finished == {"done", "conn_error", "not_found"}
Working == {"requested", "writing"}

\* open(filepath, "wb"): the file is created or truncated
open_wb(disk, f) ==
    [g \in DOMAIN disk \cup {f} |-> IF g = f THEN "partial" ELSE disk[g]]

write_bytes_unfinished(disk, f) == disk
\* the content is written and the file closed
write_bytes(disk, f) == [disk EXCEPT ![f] = "full"]

drained_at_first_error(fut) ==
    \/ \E u \in DOMAIN fut : fut[u] = "not_found"
    \/ \A u \in DOMAIN fut : fut[u] \in Finished
\* leaving the with block of the executor waits for every future
drained(fut) == \A u \in DOMAIN fut : fut[u] \in Finished

\* parallel_requests(directory, urls) as decorated: the call, up to the
\* submission of one future per url of urls_copy
parallel_requests(urls) ==
    /\ dlPhase \notin {"running", "interrupted"}
    /\ LET urls_copy == cache_download(dlDisk, urls)
           todo == {urls_copy[i] : i \in DOMAIN urls_copy}
       IN  /\ dlUrls' = urls
           /\ dlExisted' = DOMAIN dlDisk
           /\ dlFut' = [u \in todo |-> "pending"]
           /\ dlStatus' = [u \in todo |-> 0]
           /\ dlRequests' = [u \in todo |-> 0]
           /\ dlPhase' = IF urls_copy = <<>> THEN "returned" ELSE "running"
           /\ dlAgain' = (/\ urls = dlUrls
                          /\ dlPhase = "returned"
                          /\ \A u \in DOMAIN dlFut : dlFut[u] = "done")
    /\ UNCHANGED dlDisk

\* a worker is free to take the future of u
can_start(u) ==
    /\ dlFut[u] \in {"pending", "retrying"}
    /\ Cardinality({v \in DOMAIN dlFut : dlFut[v] \in Working}) < nb_workers

\* scrape(u) up to the response of simple_download's requests: a
\* connection error ends the future; a status other than 200 is logged and
\* getsize then raises FileNotFoundError unless the file is there; a page
\* answered with 200 that holds a refresh tag has its target requested, and
\* the answer to that request is the content to write
simple_download_get(u) ==
    /\ dlPhase = "running"
    /\ can_start(u)
    /\ dlRequests' = [dlRequests EXCEPT ![u] = @ + 1]
    /\ \/ /\ dlFut' = [dlFut EXCEPT ![u] = "conn_error"]
          /\ UNCHANGED dlStatus
       \/ \E s \in Statuses, refresh_error \in BOOLEAN :
            /\ refresh_error => s = 200
            /\ dlStatus' = [dlStatus EXCEPT ![u] = s]
            /\ dlFut' = [dlFut EXCEPT ![u] =
                 IF s = 200
                 THEN IF refresh_error THEN "conn_error" ELSE "requested"
                 ELSE IF /\ s \in requests_retry_session.status_forcelist
                         /\ dlRequests[u] < get_max_retries
                      THEN "retrying"
                 ELSE IF exists(dlDisk, FileOf(u)) THEN "done"
                 ELSE "not_found"]
    /\ UNCHANGED <<dlDisk, dlUrls, dlExisted, dlPhase, dlAgain>>

\* Path.write_bytes opens the file
simple_download_open(u) ==
    /\ dlPhase = "running"
    /\ dlFut[u] = "requested"
    /\ dlDisk' = open_wb(dlDisk, FileOf(u))
    /\ dlFut' = [dlFut EXCEPT ![u] = "writing"]
    /\ UNCHANGED <<dlUrls, dlExisted, dlStatus, dlRequests, dlPhase, dlAgain>>

\* Path.write_bytes writes and closes; the scrape then returns
simple_download_write(u) ==
    /\ dlPhase = "running"
    /\ dlFut[u] = "writing"
    /\ dlDisk' = write_bytes(dlDisk, FileOf(u))
    /\ dlFut' = [dlFut EXCEPT ![u] = "done"]
    /\ UNCHANGED <<dlUrls, dlExisted, dlStatus, dlRequests, dlPhase, dlAgain>>

\* the end of the call: a FileNotFoundError of a future is not caught
parallel_requests_end ==
    /\ dlPhase = "running"
    /\ drained(dlFut)
    /\ dlPhase' = IF \E u \in DOMAIN dlFut : dlFut[u] = "not_found"
                  THEN "raised" ELSE "returned"
    /\ UNCHANGED <<dlDisk, dlUrls, dlExisted, dlFut, dlStatus, dlRequests,
                   dlAgain>>

\* the process is terminated during the call: nothing runs any more
interrupt ==
    /\ dlPhase = "running"
    /\ dlPhase' = "interrupted"
    /\ UNCHANGED <<dlDisk, dlUrls, dlExisted, dlFut, dlStatus, dlRequests,
                   dlAgain>>

Download == (\E urls \in Batches : parallel_requests(urls)) /\ UNCHANGED <<regVars, trVars, extVars>>
Get == (\E u \in DOMAIN dlFut : simple_download_get(u)) /\ UNCHANGED <<regVars, trVars, extVars>>
Open == (\E u \in DOMAIN dlFut : simple_download_open(u)) /\ UNCHANGED <<regVars, trVars, extVars>>
Write == (\E u \in DOMAIN dlFut : simple_download_write(u)) /\ UNCHANGED <<regVars, trVars, extVars>>
End == parallel_requests_end /\ UNCHANGED <<regVars, trVars, extVars>>
Interrupt == interrupt /\ UNCHANGED <<regVars, trVars, extVars>>

NextDl ==
    \/ Download
    \/ Get
    \/ Open
    \/ Write
    \/ End
    \/ Interrupt

SpecDl == Init /\ [][NextDl]_vars

\* ------------------------------------------------ the records transform
\* the most records a collection has in its cached pages
MaxRecords == 2

\* the most runs of the records transform
MaxRuns == 2

\* the targets the records of a collection name
TargetNames == {<<"M">>, <<"D">>}

TrRecords(c) ==
    [ode_id : 1..MaxRecords, Target_name : TargetNames, ihid : {c.IHID},
     iid : {c.IID}, Data_Set_Id : {c.DataSetId}]

\* word[0].upper() + word[1:].lower()
Capitalize(w) ==
    [i \in DOMAIN w |-> IF i = 1 THEN UpperChar(w[i]) ELSE LowerChar(w[i])]

\* PdsRegistryModel
get_collection_id(d) == <<"urn:pdssp:pds:collection:">> \o d.DataSetId
get_instrument_id(d) == <<"urn:pdssp:pds:instru:">> \o d.IID
get_plateform_id(d) == <<"urn:pdssp:pds:plateform:">> \o d.IHID
get_mission_id(d) == <<"urn:pdssp:pds:mission:">> \o d.IHID
get_planet(d) == Capitalize(d.ODEMetaDB)
get_planet_id(d) == <<"urn:pdssp:pds:planet:">> \o get_planet(d)

\* PdsRecordModel
record_get_id(r) == str(r.ode_id)
record_get_collection_id(r) == <<"urn:pdssp:pds:collection:">> \o r.Data_Set_Id
record_get_instrument_id(r) == <<"urn:pdssp:pds:instru:">> \o r.iid
record_get_plateform_id(r) == <<"urn:pdssp:pds:plateform:">> \o r.ihid
record_get_mission_id(r) == <<"urn:pdssp:pds:mission:">> \o r.ihid
record_get_planet(r) == Capitalize(r.Target_name)
record_get_planet_id(r) == <<"urn:pdssp:pds:planet:">> \o record_get_planet(r)

\* the directory of the STAC storage, as a path from the root catalog
stac_directory == <<>>

\* the directory whose existence makes _create_items_stac skip a record
record_directory(r) ==
    stac_directory \o
    <<record_get_planet_id(r), record_get_mission_id(r),
      record_get_plateform_id(r), record_get_instrument_id(r),
      record_get_collection_id(r), record_get_id(r)>>

\* os.path.exists of a directory: some file lies under it
dir_exists(files, dir) ==
    \E f \in files : Len(f) > Len(dir) /\ SubSeq(f, 1, Len(dir)) = dir

\* PdsRecordModel.get_body_id: the id of the body the record names
record_get_body_id(r) == record_get_planet_id(r)

\* StacStorage.item_exists
item_exists(files, r) ==
    dir_exists(files,
               stac_directory \o
               <<record_get_body_id(r), record_get_mission_id(r),
                 record_get_plateform_id(r), record_get_instrument_id(r),
                 record_get_collection_id(r), record_get_id(r)>>)

\* the records of the cached pages that to_stac turns into new items
_create_items_stac(files, records) ==
    SelectSeq(records, LAMBDA r : ~dir_exists(files, record_directory(r)))

\* Catalog.get_child(id, recursive=True): the path of the catalog found
NoCatalog == <<>>
get_child_recursive(tree, id) ==
    IF \E p \in tree : p[Len(p)] = id
    THEN CHOOSE p \in tree : p[Len(p)] = id
    ELSE NoCatalog

\* Catalog.get_child(id) of the root catalog
get_child(tree, id) == IF <<id>> \in tree THEN <<id>> ELSE NoCatalog

\* the place add_child gives a catalog not found in the tree
child_of(found, parent, id) == IF found # NoCatalog THEN found ELSE parent \o <<id>>

ItemsOf(items, coll) == IF coll \in DOMAIN items THEN items[coll] ELSE <<>>

\* the place add_items gives the item of a record, and its file
item_file(coll, r) ==
    coll \o <<record_get_id(r), record_get_id(r) \o <<".json">>>>

\* the body of the loop of to_stac for one collection
to_stac_one(st, records, c) ==
    LET new == _create_items_stac(st.files, records)
        stac_planet == child_of(get_child(st.tree, get_planet_id(c)),
                                stac_directory, get_planet_id(c))
        stac_mission == child_of(get_child_recursive(st.tree, get_mission_id(c)),
                                 stac_planet, get_mission_id(c))
        stac_host == child_of(get_child_recursive(st.tree, get_plateform_id(c)),
                              stac_mission, get_plateform_id(c))
        stac_instru == child_of(get_child_recursive(st.tree, get_instrument_id(c)),
                                stac_host, get_instrument_id(c))
        stac_collection ==
            child_of(get_child_recursive(st.tree, get_collection_id(c)),
                     stac_instru, get_collection_id(c))
    IN  IF new = <<>>
        THEN st
        ELSE [tree |-> st.tree \cup {stac_planet, stac_mission, stac_host,
                                     stac_instru, stac_collection},
              items |-> [p \in DOMAIN st.items \cup {stac_collection} |->
                            IF p = stac_collection
                            THEN ItemsOf(st.items, p) \o
                                 [i \in DOMAIN new |-> record_get_id(new[i])]
                            ELSE st.items[p]],
              files |-> st.files \cup
                        {item_file(stac_collection, new[i]) : i \in DOMAIN new}]

RECURSIVE to_stac(_, _, _)
to_stac(st, cache, pds_collections) ==
    IF pds_collections = <<>>
    THEN st
    ELSE to_stac(to_stac_one(st, cache[Head(pds_collections)],
                             Head(pds_collections)),
                 cache, Tail(pds_collections))

\* load_pds_collections_from_cache: the collections in some order
RECURSIVE SeqOf(_)
SeqOf(S) ==
    IF S = {} THEN <<>>
    ELSE LET x == CHOOSE y \in S : TRUE IN <<x>> \o SeqOf(S \ {x})

\* a page of records of a collection is downloaded into the cache
CacheRecord ==
    /\ trRuns = 0
    /\ \E c \in TrCollections : \E r \in TrRecords(c) :
          /\ Len(trCache[c]) < MaxRecords
          /\ \A i \in DOMAIN trCache[c] : trCache[c][i].ode_id # r.ode_id
          /\ trCache' = [trCache EXCEPT ![c] = Append(@, r)]
    /\ UNCHANGED <<stacTree, stacItems, stacFiles, trRuns, trHash>>
    /\ UNCHANGED <<regVars, dlVars, extVars>>

\* LargeDataVolumeStrategy
num_dirs == 1000

_hash_storage(hashed_key) == str(hashed_key % num_dirs)

\* the href the strategy gives an item: parent_dir/dir_index/item.id.json
get_strategy_item(parent_dir, id, hash) ==
    parent_dir \o <<_hash_storage(hash[id]), id \o <<".json">>>>

\* hash() of a str is salted anew by each interpreter: any integers
Hashes == [{str(i) : i \in 1..MaxRecords} -> {1002, -1}]

\* transform(PDS_RECORDS), in a new interpreter
Transform ==
    /\ trRuns < MaxRuns
    /\ trHash' \in Hashes
    /\ LET st == to_stac([tree |-> stacTree, items |-> stacItems,
                          files |-> stacFiles],
                         trCache, SeqOf(TrCollections))
       IN  /\ stacTree' = st.tree
           /\ stacItems' = st.items
           /\ stacFiles' = st.files
    /\ trRuns' = trRuns + 1
    /\ UNCHANGED trCache
    /\ UNCHANGED <<regVars, dlVars, extVars>>

NextTr ==
    \/ CacheRecord
    \/ Transform

SpecTr == Init /\ [][NextTr]_vars

\* --------------------------- one run of the records transform, any ids
\* the most collections of the registry in that run
MaxChain == 2

\* collections of two bodies, two instrument hosts and two instruments
ChainCollections ==
    [ODEMetaDB : {<<"m">>, <<"v">>}, IHID : {<<"r">>, <<"s">>},
     IID : {<<"i">>, <<"j">>}, PT : {ThePT}, DataSetId : DataSetIds,
     NumberProducts : {1}, MinOrbit : {NoneInt}]

\* the registry holds a collection once
ChainLists ==
    {l \in UNION {[1..n -> ChainCollections] : n \in 1..MaxChain} :
        \A i, j \in DOMAIN l : l[i] = l[j] => i = j}

\* one cached page of one record for each collection
ChainCache ==
    [c \in ChainCollections |->
        <<[ode_id |-> 1, Target_name |-> c.ODEMetaDB, ihid |-> c.IHID,
           iid |-> c.IID, Data_Set_Id |-> c.DataSetId]>>]

\* transform(PDS_RECORDS) on a STAC directory holding the root catalog only
ChainTransform ==
    /\ chainColls = <<>>
    /\ \E pds_collections \in ChainLists :
          /\ chainColls' = pds_collections
          /\ chainTree' = to_stac([tree |-> {}, items |-> <<>>, files |-> {}],
                                  ChainCache, pds_collections).tree
    /\ UNCHANGED <<regVars, dlVars, trVars, catNodes, catLast, etlLast, lockVars, discVars, pipeVars>>

NextChain == ChainTransform

SpecChain == Init /\ [][NextChain]_vars

\* ------------------------------------------------------ catalogs to STAC
\* the PDS3 objects of the catalogs of a collection: a mission, a platform,
\* two instruments, a dataset of one or of two instruments whose
\* description may be missing
CatRequests ==
    LET CatContents == {[title |-> "t", description |-> <<"a">>],
                        [title |-> "u", description |-> <<"a", "a">>],
                        [title |-> "v", description |-> <<"b", "b">>]}
    IN
    {[kind |-> "mission", id |-> "M", parents |-> <<"B">>,
      title |-> c.title, description |-> c.description] : c \in CatContents}
    \cup {[kind |-> "plateform", id |-> "P", parents |-> <<"M">>,
           title |-> "t", description |-> <<"a">>]}
    \cup {[kind |-> "instrument", id |-> i, parents |-> <<"P">>,
           title |-> "t", description |-> <<"a">>] : i \in {"I1", "I2"}}
    \cup {[kind |-> "dataset", id |-> "D", parents |-> p,
           title |-> c.title, description |-> c.description] :
             p \in {<<"I1">>, <<"I1", "I2">>},
             c \in CatContents \cup
                   {[title |-> "w", description |-> NoneWord]}}

is_already_exists_root_only(nodes, id) ==
    \E i \in DOMAIN nodes : nodes[i].id = id /\ nodes[i].parents = <<>>

\* catalog.get_child(id, recursive=True) is not None
_is_already_exists(nodes, id) == \E i \in DOMAIN nodes : nodes[i].id = id

\* catalog.get_child(id, recursive=True): the first node of that id
get_child_node(nodes, id) ==
    nodes[CHOOSE i \in DOMAIN nodes :
              /\ nodes[i].id = id
              /\ \A j \in 1..(i - 1) : nodes[j].id # id]

is_must_be_updated_not_shorter(node, request) ==
    /\ node.disk
    /\ request.description # NoneWord
    /\ Len(node.description) <= Len(request.description)

\* the node is on disk and its description is shorter than the incoming one
_is_must_be_updated(node, request) ==
    /\ node.disk
    /\ request.description # NoneWord
    /\ Len(node.description) < Len(request.description)

\* create_stac_catalog, create_stac_collection: description="" unless the
\* object has one
create_stac(request) ==
    [id |-> request.id, parents |-> <<>>, title |-> request.title,
     description |-> IF request.description = NoneWord THEN <<>>
                     ELSE request.description,
     disk |-> FALSE]

_update(node, request) ==
    [node EXCEPT !.title = create_stac(request).title,
                 !.description = create_stac(request).description,
                 !.disk = TRUE]

\* the handler of the chain that takes the request: the node is created
\* and attached under its parents, up to the first one that is not in the
\* tree (None.add_child raises), or updated, or left alone
handle(nodes, request) ==
    IF ~_is_already_exists(nodes, request.id)
    THEN LET found == {k \in DOMAIN request.parents :
                         \A j \in 1..k :
                             _is_already_exists(nodes, request.parents[j])}
         IN  IF found = {}
             THEN nodes
             ELSE Append(nodes,
                         [create_stac(request) EXCEPT
                              !.parents = SubSeq(request.parents, 1,
                                                 Cardinality(found))])
    ELSE IF _is_must_be_updated(get_child_node(nodes, request.id), request)
         THEN [i \in DOMAIN nodes |->
                  IF nodes[i] = get_child_node(nodes, request.id)
                  THEN _update(nodes[i], request) ELSE nodes[i]]
         ELSE nodes

\* StacPdsCollection.to_stac for the catalogs of a collection that hold one
\* PDS3 object: the body is added to the root when it is not in the tree,
\* then the object goes down the chain
ToStac ==
    /\ \E request \in CatRequests :
          /\ catNodes' =
                handle(IF _is_already_exists(catNodes, "B") THEN catNodes
                       ELSE Append(catNodes,
                                   [id |-> "B", parents |-> <<>>,
                                    title |-> "b", description |-> <<"b">>,
                                    disk |-> FALSE]),
                       request)
          /\ catLast' =
                [op |-> "to_stac", request |-> request,
                 pre |-> IF _is_already_exists(catNodes, request.id)
                         THEN <<get_child_node(catNodes, request.id)>>
                         ELSE <<>>]
    /\ UNCHANGED <<regVars, dlVars, trVars, etlLast, auxVars>>

\* StacPdsCollection.SORT_ORDER
SORT_ORDER ==
    [val \in {"MISSION_CATALOG", "INSTRUMENT_HOST_CATALOG", "INSTRUMENT_CATALOG",
              "DATA_SET_CATALOG", "DATA_SET_MAP_PROJECTION_CATALOG",
              "PERSONNEL_CATALOG", "REFERENCE_CATALOG", "VOL_DESC",
              "collection"} |->
        CASE val = "MISSION_CATALOG" -> 0
          [] val = "INSTRUMENT_HOST_CATALOG" -> 1
          [] val = "INSTRUMENT_CATALOG" -> 2
          [] val = "DATA_SET_CATALOG" -> 3
          [] val = "DATA_SET_MAP_PROJECTION_CATALOG" -> 4
          [] val = "PERSONNEL_CATALOG" -> 5
          [] val = "REFERENCE_CATALOG" -> 6
          [] val = "VOL_DESC" -> 7
          [] val = "collection" -> 8]

\* the loop of StacPdsCollection.to_stac over the sorted names, from the
\* i-th: each catalog goes down the chain; a platform, an instrument or a
\* dataset that is not in the tree and whose parent is not either ends the
\* loop (None.add_child raises AttributeError); the other catalogs are
\* taken by no handler
RECURSIVE to_stac_catalogs(_, _, _)
to_stac_catalogs(nodes, catalogs, i) ==
    IF i > Len(catalogs)
    THEN [nodes |-> nodes, handled |-> <<>>, raised |-> FALSE]
    ELSE LET kind == CASE catalogs[i] = "MISSION_CATALOG" -> "mission"
                       [] catalogs[i] = "INSTRUMENT_HOST_CATALOG" -> "plateform"
                       [] catalogs[i] = "INSTRUMENT_CATALOG" -> "instrument"
                       [] catalogs[i] = "DATA_SET_CATALOG" -> "dataset"
                       [] OTHER -> "none"
             request == CHOOSE r \in CatRequests :
                            /\ r.kind = (IF kind = "none" THEN "mission" ELSE kind)
                            /\ r.title = "t" /\ r.id # "I2" /\ Len(r.parents) = 1
         IN  IF kind = "none"
             THEN LET rest == to_stac_catalogs(nodes, catalogs, i + 1)
                  IN  [rest EXCEPT !.handled = <<catalogs[i]>> \o @]
             ELSE IF /\ ~_is_already_exists(nodes, request.id)
                     /\ ~_is_already_exists(nodes, request.parents[1])
             THEN [nodes |-> nodes, handled |-> <<catalogs[i]>>, raised |-> TRUE]
             ELSE LET rest == to_stac_catalogs(handle(nodes, request), catalogs, i + 1)
                  IN  [rest EXCEPT !.handled = <<catalogs[i]>> \o @]

\* StacPdsCollection.to_stac for the catalogs of a collection: nothing is
\* done without the volume description; the body is added to the root
\* when it is not in the tree, and the catalogs are handled as sorted
ToStacCatalogs ==
    /\ \E handled \in SUBSET {"MISSION_CATALOG", "INSTRUMENT_HOST_CATALOG",
                               "INSTRUMENT_CATALOG", "DATA_SET_CATALOG"},
          others \in {{}, {"VOL_DESC"},
                      {"VOL_DESC", "DATA_SET_MAP_PROJECTION_CATALOG",
                       "PERSONNEL_CATALOG", "REFERENCE_CATALOG"}} :
          LET keys == handled \cup others \cup {"collection"}
              catalogs == [i \in 1..Cardinality(keys) |->
                             CHOOSE k \in keys :
                                 Cardinality({j \in keys : SORT_ORDER[j] < SORT_ORDER[k]}) = i - 1]
              result == to_stac_catalogs(
                            IF _is_already_exists(catNodes, "B") THEN catNodes
                            ELSE Append(catNodes,
                                        [id |-> "B", parents |-> <<>>,
                                         title |-> "b", description |-> <<"b">>,
                                         disk |-> FALSE]),
                            catalogs, 1)
          IN  IF "VOL_DESC" \notin keys
              THEN /\ catLast' = [op |-> "to_stac_catalogs", request |-> NoRequest,
                                  pre |-> catNodes, keys |-> keys,
                                  handled |-> <<>>, raised |-> FALSE]
                   /\ UNCHANGED catNodes
              ELSE /\ catNodes' = result.nodes
                   /\ catLast' = [op |-> "to_stac_catalogs", request |-> NoRequest,
                                  pre |-> catNodes, keys |-> keys,
                                  handled |-> result.handled,
                                  raised |-> result.raised]
    /\ UNCHANGED <<regVars, dlVars, trVars, etlLast, auxVars>>

\* root_normalize_and_save: every node of the tree is written
SaveCat ==
    /\ catNodes' = [i \in DOMAIN catNodes |-> [catNodes[i] EXCEPT !.disk = TRUE]]
    /\ catLast' = [op |-> "save", request |-> NoRequest, pre |-> <<>>]
    /\ UNCHANGED <<regVars, dlVars, trVars, etlLast, auxVars>>

NextCat ==
    \/ ToStac
    \/ SaveCat

SpecCat == Init /\ [][NextCat]_vars

\* the catalogs of one collection after the other, saved or not in between
NextCatalogs ==
    \/ ToStacCatalogs
    \/ SaveCat

SpecCatalogs == Init /\ [][NextCatalogs]_vars

\* ----------------------------------------------------------------- ETL
\* the lists of collections of the registry and of the ODE web service:
\* one entry for an identity
EtlLists ==
    {l \in SeqsUpTo({d \in Descriptors : /\ d.ODEMetaDB = <<"m">>
                                         /\ d.MinOrbit = NoneInt}, MaxList) :
        \A i, j \in DOMAIN l : l[i].DataSetId = l[j].DataSetId => i = j}

\* PdsRegistryModel.__eq__: the fields of the dataclass that compare
eq(a, b) ==
    <<a.ODEMetaDB, a.IHID, a.IID, a.PT, a.DataSetId, a.NumberProducts>> =
    <<b.ODEMetaDB, b.IHID, b.IID, b.PT, b.DataSetId, b.NumberProducts>>

_check_updates_from_PDS(pds_collections, pds_collections_cache) ==
    Cardinality({i \in DOMAIN pds_collections_cache :
                    \A j \in DOMAIN pds_collections :
                        ~eq(pds_collections[j], pds_collections_cache[i])})

\* (nb_to_ingest, nb_records)
RECURSIVE check_collections_to_ingest_from_pds(_, _)
check_collections_to_ingest_from_pds(pds_collections, pds_collections_cache) ==
    IF pds_collections = <<>>
    THEN <<0, 0>>
    ELSE LET rest == check_collections_to_ingest_from_pds(
                         Tail(pds_collections), pds_collections_cache)
             pds_collection == Head(pds_collections)
         IN  IF \A i \in DOMAIN pds_collections_cache :
                    ~eq(pds_collections_cache[i], pds_collection)
             THEN <<rest[1] + 1, rest[2] + pds_collection.NumberProducts>>
             ELSE rest

check_collections_to_ingest_root_only(tree, cached_pds_collections) ==
    Cardinality({i \in DOMAIN cached_pds_collections :
                    get_child(tree,
                              get_collection_id(cached_pds_collections[i]))
                        = NoCatalog})

_check_collections_to_ingest(tree, cached_pds_collections) ==
    Cardinality({i \in DOMAIN cached_pds_collections :
                    get_child_recursive(
                        tree, get_collection_id(cached_pds_collections[i]))
                        = NoCatalog})

\* check_update(CHECK_PDS)
CheckPds ==
    /\ \E pds_collections \in EtlLists, pds_collections_cache \in EtlLists :
          etlLast' =
              [op |-> "check_pds", pds_collections |-> pds_collections,
               pds_collections_cache |-> pds_collections_cache,
               nb_to_update |->
                   _check_updates_from_PDS(pds_collections,
                                           pds_collections_cache),
               nb_to_ingest |->
                   check_collections_to_ingest_from_pds(
                       pds_collections, pds_collections_cache)[1],
               nb_records |->
                   check_collections_to_ingest_from_pds(
                       pds_collections, pds_collections_cache)[2]]
    /\ UNCHANGED <<regVars, dlVars, trVars, catNodes, catLast, auxVars>>

\* check_update(CHECK_CACHE), the root catalog being the one the records
\* transform made of one record of each collection of materialized
CheckCache ==
    /\ \E pds_collections \in EtlLists, materialized \in SUBSET TrCollections :
          LET cache == [c \in TrCollections |->
                           IF c \in materialized
                           THEN <<CHOOSE r \in TrRecords(c) :
                                      r.ode_id = 1 /\ r.Target_name = <<"M">>>>
                           ELSE <<>>]
              tree == to_stac([tree |-> {}, items |-> <<>>, files |-> {}],
                              cache, SeqOf(TrCollections)).tree
          IN  etlLast' =
                  [op |-> "check_cache", pds_collections |-> pds_collections,
                   tree |-> tree,
                   nb_to_ingest |->
                       _check_collections_to_ingest(tree, pds_collections)]
    /\ UNCHANGED <<regVars, dlVars, trVars, catNodes, catLast, auxVars>>

\* the page URLs generate_urls_for_one_collection computes for a
\* collection of total products, from the record offset on
GenerateUrls ==
    /\ \E total \in 1..MaxTotal, offset \in 1..2, limit \in DlLimits :
          etlLast' =
              [op |-> "generate_urls", total |-> total, offset |-> offset,
               limit |-> limit,
               urls |-> _generate_urls_for_pages(
                            _generate_all_pagination_params(
                                Lower(<<"M">>), TheIHID, TheIID, ThePT,
                                total, offset, limit))]
    /\ UNCHANGED <<regVars, dlVars, trVars, catNodes, catLast, auxVars>>

\* the catalog files voldesc.cat names, in the order of its CATALOG object:
\* one mission catalog, a list of two dataset catalogs (a type without
\* file, None, names nothing)
list_catalogs == <<"mission.cat", "ds1.cat", "ds2.cat">>

\* PdsCollectionStorage.get_catalog(file, catalogue_type, timeout): the
\* PDS3 object of the file, or an exception for a file that does not parse
get_catalog(file, bad) == IF file \in bad THEN "Exception" ELSE file

parse_catalog_raising(st, catalog_name, bad) ==
    IF get_catalog(catalog_name, bad) = "Exception"
    THEN [st EXCEPT !.raised = TRUE]
    ELSE [st EXCEPT !.result = @ \cup {get_catalog(catalog_name, bad)}]

\* the object is stored in result, or the exception is caught and the
\* observers are notified
_parse_catalog(st, catalog_name, bad) ==
    IF get_catalog(catalog_name, bad) = "Exception"
    THEN [st EXCEPT !.notified = Append(@, catalog_name)]
    ELSE [st EXCEPT !.result = @ \cup {get_catalog(catalog_name, bad)}]

\* the loop of get_ode_catalogs over the catalogs, left by an exception
RECURSIVE parse_catalogs(_, _, _)
parse_catalogs(st, catalogs, bad) ==
    IF catalogs = <<>> \/ st.raised
    THEN st
    ELSE parse_catalogs(_parse_catalog(st, Head(catalogs), bad),
                        Tail(catalogs), bad)

\* voldesc is what get_volume_description(timeout) does: the volume is
\* parsed, FileNotFoundError is raised, or the parser raises
get_ode_catalogs(voldesc, bad) ==
    IF voldesc = "FileNotFoundError"
    THEN [result |-> {"collection"}, notified |-> <<>>, raised |-> FALSE]
    ELSE IF voldesc = "Exception"
    THEN [result |-> {}, notified |-> <<>>, raised |-> TRUE]
    ELSE LET st == parse_catalogs([result |-> {"collection", "voldesc.cat"},
                                   notified |-> <<>>, raised |-> FALSE],
                                  list_catalogs, bad)
         IN  IF st.raised THEN [st EXCEPT !.result = {}] ELSE st

GetOdeCatalogs ==
    /\ \E voldesc \in {"parsed", "FileNotFoundError", "Exception"},
          bad \in SUBSET {list_catalogs[i] : i \in DOMAIN list_catalogs} :
          etlLast' = [op |-> "get_ode_catalogs", voldesc |-> voldesc,
                      bad |-> bad, out |-> get_ode_catalogs(voldesc, bad)]
    /\ UNCHANGED <<regVars, dlVars, trVars, catNodes, catLast, auxVars>>

\* catalogs_urls after load_catalogs_urls: the URLs of the catalogs that
\* voldesc.cat names and the catalog directory lists (listed), when the
\* URL of voldesc.cat was found (located) and the file parsed; the
\* exceptions of the discovery leave the list empty
load_catalogs_urls(located, parsed, listed) ==
    IF located /\ parsed
    THEN SelectSeq(list_catalogs, LAMBDA catalog_name : catalog_name \in listed)
    ELSE <<>>

build_all_urls_without_voldesc(located, parsed, listed) ==
    load_catalogs_urls(located, parsed, listed)

_build_all_urls(located, parsed, listed) ==
    IF Len(load_catalogs_urls(located, parsed, listed)) # 0
    THEN load_catalogs_urls(located, parsed, listed) \o <<"voldesc.cat">>
    ELSE <<>>

\* the batch PDSCatalogsDescription.download gives the storage to download
BuildAllUrls ==
    /\ \E located \in BOOLEAN, parsed \in BOOLEAN,
          listed \in SUBSET {list_catalogs[i] : i \in DOMAIN list_catalogs} :
          /\ parsed => located
          /\ etlLast' = [op |-> "build_all_urls", located |-> located,
                         parsed |-> parsed, listed |-> listed,
                         urls_list |-> _build_all_urls(located, parsed, listed)]
    /\ UNCHANGED <<regVars, dlVars, trVars, catNodes, catLast, auxVars>>

\* the files of a collection directory, at most
MaxFiles == 2

\* the files of the directory whose name ends with .json, by position
list_records_files(directory) ==
    SelectSeq([i \in DOMAIN directory |-> i],
              LAMBDA i : directory[i].ext = ".json")

\* json.loads with the object hook on the content of a file: the text is
\* not JSON (<<"JSONDecodeError">>), the Count is "0" (<<"None">>), a product with a
\* footprint lacks a required attribute (PdsRecordAttributeError out of
\* PdsRecordModel.from_dict), no product has a footprint (None), or the
\* page of the products that have one
dsRecordsModelDecoder(content) ==
    IF ~content.json THEN <<"JSONDecodeError">>
    ELSE IF content.Count = 0 THEN <<"None">>
    ELSE IF \E k \in DOMAIN content.Product : content.Product[k] = "incomplete"
         THEN <<"PdsRecordAttributeError">>
    ELSE IF SelectSeq(content.Product, LAMBDA r : r = "footprint") = <<>>
         THEN <<"None">>
    ELSE SelectSeq(content.Product, LAMBDA r : r = "footprint")

parse_pds_collection_from_cache_stopping(directory) ==
    LET records_files == list_records_files(directory)
        result(k) == dsRecordsModelDecoder(directory[records_files[k]])
        raising == {k \in DOMAIN records_files :
                       result(k) \in {<<"PdsRecordAttributeError">>, <<"JSONDecodeError">>}}
        stop == IF raising = {} THEN Len(records_files) + 1
                ELSE CHOOSE k \in raising : \A j \in raising : k <= j
        read == SubSeq(records_files, 1, stop - 1)
        pos(i) == CHOOSE k \in DOMAIN records_files : records_files[k] = i
    IN  [yielded |-> [k \in DOMAIN SelectSeq(read, LAMBDA i : result(pos(i)) \notin {<<"None">>, <<"JSONDecodeError">>}) |->
                        [file |-> SelectSeq(read, LAMBDA i : result(pos(i)) \notin {<<"None">>, <<"JSONDecodeError">>})[k],
                         pds_records_model |-> result(pos(SelectSeq(read, LAMBDA i : result(pos(i)) \notin {<<"None">>, <<"JSONDecodeError">>})[k]))]],
         notified |-> [k \in DOMAIN SelectSeq(read, LAMBDA i : result(pos(i)) = <<"JSONDecodeError">>) |->
                        [file |-> SelectSeq(read, LAMBDA i : result(pos(i)) = <<"JSONDecodeError">>)[k],
                         exception |-> "JSONDecodeError"]],
         raised |-> raising # {}]

\* the generator run to its end: the pages yielded, the notifications sent
\* to the observers, and whether it ended with an exception
parse_pds_collection_from_cache(directory) ==
    LET records_files == list_records_files(directory)
        result(k) == dsRecordsModelDecoder(directory[records_files[k]])
        raising == {k \in DOMAIN records_files :
                       result(k) = <<"PdsRecordAttributeError">>}
        stop == IF raising = {} THEN Len(records_files) + 1
                ELSE CHOOSE k \in raising : \A j \in raising : k <= j
        read == SubSeq(records_files, 1, stop - 1)
        pos(i) == CHOOSE k \in DOMAIN records_files : records_files[k] = i
        pages == SelectSeq(read, LAMBDA i : result(pos(i)) \notin {<<"None">>, <<"JSONDecodeError">>})
        errors == SelectSeq(read, LAMBDA i : result(pos(i)) = <<"JSONDecodeError">>)
    IN  [yielded |-> [k \in DOMAIN pages |->
                        [file |-> pages[k],
                         pds_records_model |-> result(pos(pages[k]))]],
         notified |-> [k \in DOMAIN errors |->
                        [file |-> errors[k], exception |-> "JSONDecodeError"]],
         raised |-> raising # {}]

\* a consumer exhausts the stream of the cached pages of a collection
ParseFromCache ==
    /\ LET Products == {<<"footprint">>, <<"nofootprint">>, <<"incomplete">>,
                        <<"nofootprint", "footprint">>}
           Contents == {[ext |-> ".json", json |-> FALSE, Count |-> 0, Product |-> <<>>],
                        [ext |-> ".json", json |-> TRUE, Count |-> 0, Product |-> <<>>],
                        [ext |-> ".cat", json |-> FALSE, Count |-> 0, Product |-> <<>>]}
                       \cup {[ext |-> ".json", json |-> TRUE, Count |-> Len(p), Product |-> p] :
                                p \in Products}
       IN  \E directory \in UNION {[1..n -> Contents] : n \in 0..MaxFiles} :
               etlLast' = [op |-> "parse_from_cache", directory |-> directory,
                           stream |-> parse_pds_collection_from_cache(directory)]
    /\ UNCHANGED <<regVars, dlVars, trVars, catNodes, catLast, auxVars>>

NextEtl ==
    \/ CheckPds
    \/ CheckCache
    \/ GenerateUrls
    \/ GetOdeCatalogs
    \/ BuildAllUrls
    \/ ParseFromCache

SpecEtl == Init /\ [][NextEtl]_vars

\* --------------------------------------------------- catalog discovery
\* the caches of a collection: no file, a page of count zero, a file that
\* is not JSON, a page of one record, and a record without a required
\* attribute
DiscCaches ==
    LET file(json, Product) == [ext |-> ".json", json |-> json,
                                Count |-> Len(Product), Product |-> Product]
    IN  {<<>>, <<file(TRUE, <<>>)>>, <<file(FALSE, <<>>)>>,
         <<file(TRUE, <<"footprint">>)>>,
         <<file(FALSE, <<>>), file(TRUE, <<"footprint">>)>>,
         <<file(TRUE, <<"incomplete">>)>>}

initialize_values_stale(catalogs_urls) == catalogs_urls

_initialize_values(catalogs_urls) == <<>>

\* the next step of _load_volume_description after _find_volume_desc_url:
\* the link was found, or NoFileExistInFolder was raised in the try
\* clause, or in the except clause
load_volume_description_once(found, retried) ==
    IF found THEN "FetchVolDesc" ELSE "NoVolDesc"

_load_volume_description(found, retried) ==
    IF found THEN "FetchVolDesc"
    ELSE IF ~retried THEN "ResolveVolumeId"
    ELSE "NoVolDesc"

find_catalogs_urls_raising(empty, listed) ==
    [raised |-> empty, names |-> listed]

\* the names of the catalog directory: none when the crawler raises
\* NoFileExistInFolder, which is caught and notified
_find_catalogs_urls(empty, listed) ==
    [raised |-> FALSE, names |-> IF empty THEN {} ELSE listed]

\* the discovery of the current collection ends: the download loop goes on
\* to the batch, or the exception leaves download()
DiscEnds(end, outcome) ==
    /\ discPc' = IF end = "Raised" THEN "Aborted" ELSE "Submit"
    /\ discEnd' = end
    /\ discPath' = Append(discPath, [state |-> discPc, url |-> discUrl,
                                     outcome |-> outcome])

\* the discovery goes to its next step
DiscGoes(next, outcome) ==
    /\ discPc' = next
    /\ discPath' = Append(discPath, [state |-> discPc, url |-> discUrl,
                                     outcome |-> outcome])
    /\ UNCHANGED discEnd

\* download() takes the next collection: load_catalogs_urls resets the
\* values, reads the first page of the cache and builds the explorer URL
\* with the volume id of its first record
NeedSample ==
    /\ discPc = "Idle"
    /\ discTodo > 0
    /\ discTodo' = discTodo - 1
    /\ \E directory \in DiscCaches :
          LET stream == parse_pds_collection_from_cache(directory)
          IN  /\ discCache' = directory
              /\ discPath' = <<>>
              /\ discFetched' = {}
              /\ discRetried' = FALSE
              /\ discUrls' = _initialize_values(discUrls)
              /\ IF stream.yielded # <<>>
                 THEN /\ discPc' = "FindVolDesc"
                      /\ discUrl' = "sample"
                      /\ discMsgs' = <<>>
                      /\ discEnd' = ""
                 ELSE IF stream.raised
                 THEN /\ discPc' = "Aborted"
                      /\ discUrl' = ""
                      /\ discMsgs' = <<>>
                      /\ discEnd' = "Raised"
                 ELSE /\ discPc' = "Submit"
                      /\ discUrl' = ""
                      /\ discMsgs' = <<"No record">>
                      /\ discEnd' = "NoRecord"
    /\ UNCHANGED <<discSleep, discBatch>>
    /\ UNCHANGED <<regVars, dlVars, trVars, catNodes, catLast, etlLast, lockVars, pipeVars, chainVars>>

\* Crawler.query after an exception of the GET: time.sleep(1), then the
\* next turn of its loop
Sleep ==
    /\ discSleep
    /\ discSleep' = FALSE
    /\ UNCHANGED <<discPc, discTodo, discCache, discUrl, discRetried, discPath,
                   discFetched, discMsgs, discUrls, discEnd, discBatch>>
    /\ UNCHANGED <<regVars, dlVars, trVars, catNodes, catLast, etlLast, lockVars, pipeVars, chainVars>>

\* _find_volume_desc_url: the explorer page is fetched and scanned for the
\* link named voldesc.cat
FindVolDesc ==
    /\ discPc = "FindVolDesc"
    /\ ~discSleep
    /\ discFetched' = discFetched \cup {<<"explorer", discUrl>>}
    /\ \E outcome \in {"error", "empty", "no link", "found"} :
          IF outcome = "error"
          THEN /\ discSleep' = TRUE
               /\ UNCHANGED <<discPc, discPath, discEnd, discRetried, discMsgs>>
          ELSE /\ UNCHANGED discSleep
               /\ IF _load_volume_description(outcome = "found", discRetried) = "NoVolDesc"
                  THEN /\ DiscEnds("NoVolDesc", outcome)
                       /\ discMsgs' = Append(discMsgs, "NoFileExistInFolder")
                       /\ UNCHANGED discRetried
                  ELSE /\ DiscGoes(_load_volume_description(outcome = "found", discRetried), outcome)
                       /\ discRetried' = (discRetried \/ outcome # "found")
                       /\ UNCHANGED discMsgs
    /\ UNCHANGED <<discTodo, discCache, discUrl, discUrls, discBatch>>
    /\ UNCHANGED <<regVars, dlVars, trVars, catNodes, catLast, etlLast, lockVars, pipeVars, chainVars>>

\* _find_volume_id: the explorer page without volume id is fetched and
\* scanned for the link named as the volume of the record; the URL is
\* rebuilt with the volume id of that link
ResolveVolumeId ==
    /\ discPc = "ResolveVolumeId"
    /\ ~discSleep
    /\ discFetched' = discFetched \cup {<<"explorer", "none">>}
    /\ \E outcome \in {"error", "empty", "no link", "found"} :
          IF outcome = "error"
          THEN /\ discSleep' = TRUE
               /\ discUrl' = "none"
               /\ UNCHANGED <<discPc, discPath, discEnd, discMsgs>>
          ELSE /\ UNCHANGED discSleep
               /\ IF outcome = "found"
                  THEN /\ discPc' = "FindVolDesc"
                       /\ discPath' = Append(discPath, [state |-> discPc, url |-> "none",
                                                        outcome |-> outcome])
                       /\ discUrl' = "true"
                       /\ UNCHANGED <<discEnd, discMsgs>>
                  ELSE /\ discPc' = "Submit"
                       /\ discEnd' = "NoVolDesc"
                       /\ discPath' = Append(discPath, [state |-> discPc, url |-> "none",
                                                        outcome |-> outcome])
                       /\ discUrl' = "none"
                       /\ discMsgs' = Append(discMsgs, "NoFileExistInFolder")
    /\ UNCHANGED <<discTodo, discCache, discRetried, discUrls, discBatch>>
    /\ UNCHANGED <<regVars, dlVars, trVars, catNodes, catLast, etlLast, lockVars, pipeVars, chainVars>>

\* _parse_volume_desc_cat: voldesc.cat is fetched with the retry session
\* and parsed; a status that is not ok raises PdsCatalogDescriptionError,
\* which neither load_catalogs_urls nor download catches
FetchVolDesc ==
    /\ discPc = "FetchVolDesc"
    /\ discFetched' = discFetched \cup {<<"voldesc.cat", discUrl>>}
    /\ \E outcome \in {"ok", "not ok", "ConnectionError", "UnexpectedCharacters"} :
          CASE outcome = "ok" ->
                 /\ DiscGoes("ListCatalogDir", outcome)
                 /\ UNCHANGED discMsgs
            [] outcome = "not ok" ->
                 /\ DiscEnds("Raised", outcome)
                 /\ UNCHANGED discMsgs
            [] outcome = "ConnectionError" ->
                 /\ DiscEnds("FetchError", outcome)
                 /\ discMsgs' = Append(discMsgs, outcome)
            [] outcome = "UnexpectedCharacters" ->
                 /\ DiscEnds("ParseError", outcome)
                 /\ discMsgs' = Append(discMsgs, outcome)
    /\ UNCHANGED <<discSleep, discTodo, discCache, discUrl, discRetried, discUrls,
                   discBatch>>
    /\ UNCHANGED <<regVars, dlVars, trVars, catNodes, catLast, etlLast, lockVars, pipeVars, chainVars>>

\* _find_catalogs_urls and the rest of _get_urls_from_volume_catalog: the
\* catalog directory is fetched, and the catalogs that voldesc.cat names
\* are resolved with the names it lists
ListCatalogDir ==
    /\ discPc = "ListCatalogDir"
    /\ ~discSleep
    /\ discFetched' = discFetched \cup {<<"catalog/", discUrl>>}
    /\ \E outcome \in {"error", "empty", "listed"},
          listed \in SUBSET {list_catalogs[i] : i \in DOMAIN list_catalogs} :
          IF outcome = "error"
          THEN /\ listed = {}
               /\ discSleep' = TRUE
               /\ UNCHANGED <<discPc, discPath, discEnd, discMsgs, discUrls>>
          ELSE /\ outcome = "empty" => listed = {}
               /\ UNCHANGED discSleep
               /\ discMsgs' = IF outcome = "empty"
                              THEN Append(discMsgs, "NoFileExistInFolder")
                              ELSE discMsgs
               /\ IF _find_catalogs_urls(outcome = "empty", listed).raised
                  THEN /\ DiscEnds("NoVolDesc", outcome)
                       /\ UNCHANGED discUrls
                  ELSE /\ DiscEnds("Done", outcome)
                       /\ discUrls' = SelectSeq(list_catalogs,
                                         LAMBDA catalog_name :
                                           catalog_name \in _find_catalogs_urls(outcome = "empty", listed).names)
    /\ UNCHANGED <<discTodo, discCache, discUrl, discRetried, discBatch>>
    /\ UNCHANGED <<regVars, dlVars, trVars, catNodes, catLast, etlLast, lockVars, pipeVars, chainVars>>

\* download() gives the URLs of the collection to its storage, and goes on
\* to the next collection
Submit ==
    /\ discPc = "Submit"
    /\ discBatch' = IF Len(discUrls) # 0 THEN discUrls \o <<"voldesc.cat">> ELSE <<>>
    /\ discPc' = "Idle"
    /\ UNCHANGED <<discSleep, discTodo, discCache, discUrl, discRetried, discPath,
                   discFetched, discMsgs, discUrls, discEnd>>
    /\ UNCHANGED <<regVars, dlVars, trVars, catNodes, catLast, etlLast, lockVars, pipeVars, chainVars>>

NextDisc ==
    \/ NeedSample
    \/ Sleep
    \/ FindVolDesc
    \/ ResolveVolumeId
    \/ FetchVolDesc
    \/ ListCatalogDir
    \/ Submit

SpecDisc == Init /\ [][NextDisc]_vars

\* the download keeps running: a step that can be taken is taken
SpecDiscFair == SpecDisc /\ WF_vars(NextDisc)

\* ------------------------------------------- extraction of the records
\* the default of the limit parameter of generate_urls_for_one_collection
\* (5000 in the code): more than the products of any collection
DefaultLimit == 5

\* the lists of collections loaded from the cache of the registry
PipeLists ==
    LET c(id, n) == [ODEMetaDB |-> <<"m">>, IHID |-> TheIHID, IID |-> TheIID,
                     PT |-> ThePT, DataSetId |-> id, NumberProducts |-> n,
                     MinOrbit |-> NoneInt]
    IN  {<<c(<<"d", "-">>, n)>> : n \in 1..MaxProducts}
        \cup {<<c(<<"d", "-">>, n), c(<<"D", "-">>, m)>> :
                 n \in 1..MaxProducts, m \in 1..MaxProducts}

\* the page URLs of a collection as the registry stores them: the URL of a
\* page is identified by its offset and its limit
page_urls(total, limit) ==
    LET pages == _generate_all_pagination_params(Lower(<<"M">>), TheIHID, TheIID,
                                                 ThePT, total, 1, limit)
    IN  [i \in DOMAIN pages |-> pages[i].pagination_start * 10 + pages[i].limit]

\* no urls were given for download yet
NotIssued == <<NoneInt>>

never_generate(urls) == FALSE

\* download_pds_records_for_one_collection: no URL in the cache
no_url_in_cache(urls) == Len(urls) = 0

\* StacETL.extract of PDS_RECORDS, or a direct call of
\* download_pds_records_for_all_collections
PipeStart ==
    /\ pipePc \in {"idle", "done", "raised"}
    /\ \E colls \in PipeLists, mode \in {"extract", "direct"},
          limit \in 1..2, sample \in BOOLEAN :
          /\ pipeColls' = colls
          /\ pipeMode' = mode
          /\ pipeLimit' = limit
          /\ pipeSample' = sample
          /\ pipePc' = IF mode = "extract" THEN "generate" ELSE "load"
          /\ pipeIssued' = [i \in DOMAIN colls |-> NotIssued]
    /\ pipeIdx' = 1
    /\ pipeUrls' = <<>>
    /\ UNCHANGED <<regVars, dlVars, trVars, catNodes, catLast, etlLast, lockVars, discVars, chainVars>>

\* generate_urls_for_all_collections: the URLs of one collection are
\* generated and saved; an exception of save_urls leaves extract
ExtractGenerate ==
    /\ pipePc = "generate"
    /\ save_urls(pipeColls[pipeIdx],
                 page_urls(pipeColls[pipeIdx].NumberProducts, pipeLimit))
    /\ IF regLast'.raised
       THEN pipePc' = "raised" /\ UNCHANGED pipeIdx
       ELSE IF pipeIdx < Len(pipeColls)
       THEN pipeIdx' = pipeIdx + 1 /\ UNCHANGED pipePc
       ELSE pipeIdx' = 1 /\ pipePc' = "load"
    /\ UNCHANGED <<pipeColls, pipeMode, pipeLimit, pipeSample, pipeUrls, pipeIssued>>
    /\ UNCHANGED <<dlVars, trVars, catNodes, catLast, etlLast, lockVars, discVars, chainVars>>

\* download_pds_records_for_one_collection up to the download: the urls
\* are loaded, after they were generated and saved when there are none
DownloadLoad ==
    /\ pipePc = "load"
    /\ IF no_url_in_cache(load_urls(h5urls, pipeColls[pipeIdx]))
       THEN /\ save_urls(pipeColls[pipeIdx],
                         page_urls(pipeColls[pipeIdx].NumberProducts, DefaultLimit))
            /\ pipeUrls' = load_urls(h5urls', pipeColls[pipeIdx])
            /\ pipePc' = IF regLast'.raised THEN "raised" ELSE "issue"
       ELSE /\ pipeUrls' = load_urls(h5urls, pipeColls[pipeIdx])
            /\ pipePc' = "issue"
            /\ UNCHANGED regVars
    /\ UNCHANGED <<pipeColls, pipeMode, pipeLimit, pipeSample, pipeIdx, pipeIssued>>
    /\ UNCHANGED <<dlVars, trVars, catNodes, catLast, etlLast, lockVars, discVars, chainVars>>

\* the download of download_pds_records_for_one_collection: the urls,
\* cut to one page for a sample, are given to the storage of the collection
DownloadIssue ==
    /\ pipePc = "issue"
    /\ pipeIssued' = [pipeIssued EXCEPT ![pipeIdx] =
                         IF pipeSample
                         THEN SubSeq(pipeUrls, 1, IF Len(pipeUrls) < 1 THEN Len(pipeUrls) ELSE 1)
                         ELSE pipeUrls]
    /\ IF pipeIdx < Len(pipeColls)
       THEN pipeIdx' = pipeIdx + 1 /\ pipePc' = "load"
       ELSE pipePc' = "done" /\ UNCHANGED pipeIdx
    /\ UNCHANGED <<pipeColls, pipeMode, pipeLimit, pipeSample, pipeUrls>>
    /\ UNCHANGED <<regVars, dlVars, trVars, catNodes, catLast, etlLast, lockVars, discVars, chainVars>>

NextPipe ==
    \/ PipeStart
    \/ ExtractGenerate
    \/ DownloadLoad
    \/ DownloadIssue

SpecPipe == Init /\ [][NextPipe]_vars

\* ------------------------------------------------------------- Locking
\* one turn of the loop of lock_file: os.mkdir creates <file>.lock and the
\* loop ends, or raises OSError because the directory exists and the
\* caller sleeps before the next turn
lock_file_exist_ok(dirs, file) ==
    [locking |-> TRUE, dirs |-> dirs \cup {file \o <<".lock">>}]

lock_file(dirs, file) ==
    IF file \o <<".lock">> \in dirs
    THEN [locking |-> FALSE, dirs |-> dirs]
    ELSE [locking |-> TRUE, dirs |-> dirs \cup {file \o <<".lock">>}]

\* a caller enters lock_file, or takes the next turn of its loop
LockFile ==
    /\ \E p \in Callers, file \in LockedFiles :
          /\ lockPc[p] \in {<<>>, file}
          /\ lockDirs' = lock_file(lockDirs, file).dirs
          /\ IF lock_file(lockDirs, file).locking
             THEN /\ lockPc' = [lockPc EXCEPT ![p] = <<>>]
                  /\ lockHeld' = [lockHeld EXCEPT ![file] = @ \cup {p}]
             ELSE /\ lockPc' = [lockPc EXCEPT ![p] = file]
                  /\ UNCHANGED lockHeld
    /\ UNCHANGED <<regVars, dlVars, trVars, catNodes, catLast, etlLast, discVars, pipeVars, chainVars>>

\* unlock_file by a caller that is not in lock_file: os.rmdir removes the
\* directory (it raises when there is none, and nothing changes)
UnlockFile ==
    /\ \E p \in Callers, file \in LockedFiles :
          /\ lockPc[p] = <<>>
          /\ file \o <<".lock">> \in lockDirs
          /\ lockDirs' = lockDirs \ {file \o <<".lock">>}
          /\ lockHeld' = [lockHeld EXCEPT ![file] = {}]
          /\ UNCHANGED lockPc
    /\ UNCHANGED <<regVars, dlVars, trVars, catNodes, catLast, etlLast, discVars, pipeVars, chainVars>>

NextLock ==
    \/ LockFile
    \/ UnlockFile

SpecLock == Init /\ [][NextLock]_vars

\* ------------------------------------------------------ registry claims
\* the attributes of a group hold every field the descriptor carries
Carries(a, d) ==
    /\ a.ODEMetaDB = d.ODEMetaDB /\ a.IHID = d.IHID /\ a.IID = d.IID
    /\ a.PT = d.PT /\ a.DataSetId = d.DataSetId
    /\ a.NumberProducts = d.NumberProducts
    /\ d.MinOrbit # NoneInt => a.MinOrbit = d.MinOrbit

\* C1: save_collection(d) creates the group of d and returns true when the
\* file has no group at the path of d; when the group exists it overwrites
\* the attributes and returns true exactly when the product count of d is
\* not the stored one; otherwise it returns false and the file is unchanged.
C1_SaveCollection ==
    [][regLast'.op = "save_collection" =>
        LET d == regLast'.ds[1]
            g == CollectionGroup(d)
        IN  IF g \notin h5groups
            THEN /\ regLast'.is_saved
                 /\ g \in h5groups'
                 /\ g \in DOMAIN h5attrs'
                 /\ Carries(h5attrs'[g], d)
            ELSE IF g \notin DOMAIN h5attrs
                    \/ h5attrs[g].NumberProducts # d.NumberProducts
            THEN /\ regLast'.is_saved
                 /\ g \in DOMAIN h5attrs'
                 /\ Carries(h5attrs'[g], d)
                 /\ h5groups' = h5groups
            ELSE /\ ~regLast'.is_saved
                 /\ UNCHANGED <<h5groups, h5attrs, h5urls>>]_vars

\* C1 witness: a save over a group that holds another product count
C1_Witness ==
    /\ regLast.op = "save_collection"
    /\ regLast.pre = "differs"
    /\ regLast.is_saved
    /\ h5attrs[CollectionGroup(regLast.ds[1])].NumberProducts
           = regLast.ds[1].NumberProducts

\* C2: when save_collection(d) directly follows save_collection(d), the
\* second call leaves the file as the first one left it, with one group of
\* attributes at the path of d, and returns false; the first call returned
\* true unless the stored product count was already that of d.
C2_SaveTwice ==
    [][(/\ regLast.op = "save_collection"
        /\ regLast'.op = "save_collection"
        /\ regLast'.ds = regLast.ds) =>
        /\ h5groups' = h5groups
        /\ h5attrs' = h5attrs
        /\ Cardinality({g \in DOMAIN h5attrs' :
                           g = CollectionGroup(regLast.ds[1])}) = 1
        /\ ~regLast'.is_saved
        /\ regLast.pre # "same" => regLast.is_saved]_vars

\* C2 witness: the second of two saves of a descriptor in a row, the first
\* of which returned true
C2_Witness ==
    /\ regLast.op = "save_collection"
    /\ regLast.again
    /\ regLast.first_saved
    /\ ~regLast.is_saved

\* comparison of two words without their case
EqNoCase(a, b) == Lower(a) = Lower(b)

\* the descriptors the file holds
StoredDescriptors == {h5attrs[g] : g \in DOMAIN h5attrs}

\* C4: load_collections(body, dataset_id) returns exactly the stored
\* descriptors whose body is body and whose dataset id is dataset_id, both
\* without case; an absent filter matches every descriptor.
C4_LoadCollections ==
    regLast.op = "load_collections" =>
        regLast.loaded =
            {m \in StoredDescriptors :
                /\ regLast.body = NoneWord \/ EqNoCase(m.ODEMetaDB, regLast.body)
                /\ regLast.dataset_id = NoneWord
                   \/ EqNoCase(m.DataSetId, regLast.dataset_id)}

\* C4 witness: both filters given in another case than the stored values,
\* some descriptors returned and some left out
C4_Witness ==
    /\ regLast.op = "load_collections"
    /\ regLast.body # NoneWord
    /\ regLast.dataset_id # NoneWord
    /\ regLast.loaded # {}
    /\ regLast.loaded # StoredDescriptors
    /\ \E m \in regLast.loaded :
          /\ m.DataSetId # regLast.dataset_id
          /\ m.ODEMetaDB # regLast.body

\* C3: after save_urls(d, urls) has returned, load_urls(d) is urls, element
\* for element in the same order.
C3_UrlsRoundTrip ==
    (regLast.op = "save_urls" /\ ~regLast.raised) =>
        load_urls(h5urls, regLast.ds[1]) = regLast.urls

\* ---------------------------------------------------- downloader claims
BatchUrls == {dlUrls[i] : i \in DOMAIN dlUrls}
RequestsFor(u) == IF u \in DOMAIN dlRequests THEN dlRequests[u] ELSE 0

\* C5: no request is sent for a URL of the list whose destination file
\* existed when the download was called, and a call that repeats the list
\* of a fully successful call sends no request at all.
C5_NoRequestWhenCached ==
    /\ \A u \in BatchUrls : FileOf(u) \in dlExisted => RequestsFor(u) = 0
    /\ dlAgain => \A u \in BatchUrls : RequestsFor(u) = 0

C5_Witness ==
    /\ \E u \in BatchUrls : FileOf(u) \in dlExisted /\ RequestsFor(u) = 0
    /\ \E u \in BatchUrls : RequestsFor(u) > 0

\* C6: a URL whose file was absent at the call is requested at least once
\* and at most three times once its future has ended, and the downloader
\* gives up on a URL answering 500, 502 or 504 only after its third request.
C6_ThreeAttempts ==
    \A u \in DOMAIN dlFut :
        dlFut[u] \in Finished =>
            /\ dlRequests[u] >= 1
            /\ dlRequests[u] <= requests_retry_session.retries
            /\ (/\ dlFut[u] = "not_found"
                /\ dlStatus[u] \in requests_retry_session.status_forcelist)
               => dlRequests[u] = requests_retry_session.retries

ContentOf(disk, f) == IF exists(disk, f) THEN disk[f] ELSE "absent"

\* C8: the distinct URLs of a download list have distinct destination
\* files, a step changes a file only if a worker processing a URL of that
\* file takes it, and no two workers are writing the same file.
C8_OwnFileOnly ==
    [][/\ \A u, v \in BatchUrls' : u # v => FileOf(u) # FileOf(v)
       /\ \A u, v \in DOMAIN dlFut' :
              (u # v /\ dlFut'[u] = "writing" /\ dlFut'[v] = "writing")
              => FileOf(u) # FileOf(v)
       /\ \A f \in DOMAIN dlDisk' :
              ContentOf(dlDisk, f) # dlDisk'[f]
              => \E u \in DOMAIN dlFut :
                     /\ FileOf(u) = f
                     /\ dlFut[u] \in Working
                     /\ dlFut'[u] # dlFut[u]
                     /\ \A v \in DOMAIN dlFut \ {u} : dlFut'[v] = dlFut[v]
      ]_vars

C8_Witness ==
    \E u, v \in DOMAIN dlFut :
        /\ u # v
        /\ dlFut[u] = "writing" /\ dlFut[v] = "writing"
        /\ dlDisk[FileOf(u)] = "partial" /\ dlDisk[FileOf(v)] = "partial"

\* C9 as stated: after an interrupt every file present is fully written.
C9_WholeOrAbsent ==
    dlPhase = "interrupted" => \A f \in DOMAIN dlDisk : dlDisk[f] = "full"

\* C9 as amended: every file present is fully written unless a worker had
\* opened it and not yet written it: after an interrupt the only files
\* written in part are those whose write the interrupt cut.
C9_TornOnlyWhileWritten ==
    \A f \in DOMAIN dlDisk :
        \/ dlDisk[f] = "full"
        \/ \E u \in DOMAIN dlFut : dlFut[u] = "writing" /\ FileOf(u) = f

C9_Witness ==
    /\ dlPhase = "interrupted"
    /\ \E u \in DOMAIN dlFut :
           dlFut[u] = "writing" /\ dlDisk[FileOf(u)] = "partial"
    /\ \E u \in DOMAIN dlFut :
           dlFut[u] = "done" /\ dlDisk[FileOf(u)] = "full"

\* ----------------------------------------------------- transform claims
CollectionPath(c) == get_child_recursive(stacTree, get_collection_id(c))

\* C10: after a run of the records transform, and after any further run
\* over the same cached pages, each collection has exactly as many item
\* links as its cached pages hold records, and each record has exactly one
\* item file.
C10_TransformTwice ==
    trRuns >= 1 =>
        \A c \in TrCollections :
            /\ Len(ItemsOf(stacItems, CollectionPath(c))) = Len(trCache[c])
            /\ \A i \in DOMAIN trCache[c] :
                   Cardinality(
                       {f \in stacFiles :
                           /\ f[Len(f)] = record_get_id(trCache[c][i]) \o <<".json">>
                           /\ f[Len(f) - 2] = get_collection_id(c)}) = 1

\* C11: a further run of the pipeline over the same cached pages leaves the
\* STAC tree on disk as the first run made it: the same catalogs, the same
\* item links in each collection file, the same item files.
C11_PipelineTwice ==
    [][trRuns >= 1 /\ trRuns' = trRuns + 1 =>
          /\ stacTree' = stacTree
          /\ stacItems' = stacItems
          /\ stacFiles' = stacFiles]_vars

\* C12: every item file a run writes lies at
\* <collection directory>/<bucket>/<item id>.json, the bucket being the
\* decimal string of hash(item id) mod 1000 in the interpreter of the run.
C12_ItemBucket ==
    [][\A f \in stacFiles' \ stacFiles :
          LET name == f[Len(f)]
              id == SubSeq(name, 1, Len(name) - 1)
          IN  /\ Len(f) >= 3
              /\ f = get_strategy_item(SubSeq(f, 1, Len(f) - 2), id, trHash')]_vars

\* the records transform has saved the item of record r of collection c
ItemSaved(c, r) ==
    \E f \in stacFiles :
        /\ f[Len(f)] = record_get_id(r) \o <<".json">>
        /\ SubSeq(f, 1, Len(f) - 2) = CollectionPath(c)

\* C30: once the records transform has saved the item of a record,
\* item_exists of that record is true.
C30_SavedItemExists ==
    \A c \in TrCollections : \A i \in DOMAIN trCache[c] :
        ItemSaved(c, trCache[c][i]) => item_exists(stacFiles, trCache[c][i])

\* item_exists is true of a saved item whose record names the body of its
\* collection
C30_SavedItemExistsSameBody ==
    \A c \in TrCollections : \A i \in DOMAIN trCache[c] :
        /\ ItemSaved(c, trCache[c][i])
        /\ record_get_body_id(trCache[c][i]) = get_planet_id(c)
        => item_exists(stacFiles, trCache[c][i])

\* ------------------------------------------------------- catalog claims
\* the node of the last request before it was handled, and now
CatOld == catLast.pre[1]
CatNew == get_child_node(catNodes, catLast.request.id)

\* the description of the last request is strictly longer than the one of
\* the node it met
CatLonger ==
    /\ catLast.request.description # NoneWord
    /\ Len(catLast.request.description) > Len(CatOld.description)

CatReplaced ==
    /\ CatNew.title = catLast.request.title
    /\ CatNew.description = catLast.request.description

CatKept ==
    /\ CatNew.title = CatOld.title
    /\ CatNew.description = CatOld.description

\* C13 as stated: a handler that meets an existing node replaces its
\* content exactly when the incoming description is strictly longer than
\* the existing one, and leaves it unchanged otherwise.
C13_ReplacedIffLonger ==
    catLast.op = "to_stac" /\ catLast.pre # <<>> =>
        IF CatLonger THEN CatReplaced ELSE CatKept

\* C13 amended: a handler that meets an existing node replaces its content
\* exactly when the file of the node is on disk and the incoming
\* description is strictly longer than the existing one, and leaves it
\* unchanged otherwise.
C13_ReplacedIffOnDiskAndLonger ==
    catLast.op = "to_stac" /\ catLast.pre # <<>> =>
        IF CatOld.disk /\ CatLonger THEN CatReplaced ELSE CatKept

C13_Witness ==
    /\ catLast.op = "to_stac"
    /\ catLast.pre # <<>>
    /\ CatOld.disk
    /\ CatLonger
    /\ CatReplaced
    /\ CatNew.title # CatOld.title

\* C14: the tree holds at most one node of a given id: no node is created
\* a second time, whatever the order and the repetition of the catalogs
\* handled.
C14_OneNodePerUrn ==
    \A i, j \in DOMAIN catNodes :
        catNodes[i].id = catNodes[j].id => i = j

\* a dataset attached under its two instruments is met again
C14_Witness ==
    /\ catLast.op = "to_stac"
    /\ catLast.request.kind = "dataset"
    /\ catLast.pre # <<>>
    /\ Len(CatNew.parents) = 2
    /\ Len(catNodes) = 6

\* ----------------------------------------------------------- ETL claims
SameIdentity(a, b) ==
    <<a.ODEMetaDB, a.IHID, a.IID, a.PT, a.DataSetId>> =
    <<b.ODEMetaDB, b.IHID, b.IID, b.PT, b.DataSetId>>

\* the upstream collections whose identity is not in the cache
AbsentFromCache ==
    {j \in DOMAIN etlLast.pds_collections :
        \A i \in DOMAIN etlLast.pds_collections_cache :
            ~SameIdentity(etlLast.pds_collections[j],
                          etlLast.pds_collections_cache[i])}

RECURSIVE SumProducts(_, _)
SumProducts(l, J) ==
    IF J = {} THEN 0
    ELSE LET j == CHOOSE k \in J : TRUE
         IN  l[j].NumberProducts + SumProducts(l, J \ {j})

\* C15: the PDS change check counts as updated exactly the cached
\* collections whose identity is upstream with another product count, as
\* to ingest exactly the upstream collections whose identity is not in the
\* cache, and as records the sum of the product counts of the latter.
C15_CheckPds ==
    etlLast.op = "check_pds" =>
        /\ etlLast.nb_to_update =
               Cardinality(
                   {i \in DOMAIN etlLast.pds_collections_cache :
                       \E j \in DOMAIN etlLast.pds_collections :
                           /\ SameIdentity(etlLast.pds_collections[j],
                                           etlLast.pds_collections_cache[i])
                           /\ etlLast.pds_collections[j].NumberProducts #
                              etlLast.pds_collections_cache[i].NumberProducts})
        /\ etlLast.nb_to_ingest = Cardinality(AbsentFromCache)
        /\ etlLast.nb_records =
               SumProducts(etlLast.pds_collections, AbsentFromCache)

\* C16: the cache change check returns the number of stored collections
\* that have no collection node in the STAC tree: all of them when the
\* tree holds no collection.
C16_CheckCache ==
    etlLast.op = "check_cache" =>
        /\ etlLast.nb_to_ingest =
               Cardinality(
                   {i \in DOMAIN etlLast.pds_collections :
                       \A p \in etlLast.tree :
                           p[Len(p)] # <<"urn:pdssp:pds:collection:">> \o
                                       etlLast.pds_collections[i].DataSetId})
        /\ etlLast.tree = {} =>
               etlLast.nb_to_ingest = Len(etlLast.pds_collections)

\* two stored collections, one of them in the tree
C16_Witness ==
    /\ etlLast.op = "check_cache"
    /\ Len(etlLast.pds_collections) = 2
    /\ etlLast.nb_to_ingest = 1

\* the record the i-th page of the last generated URLs starts at
PageStart(i) == etlLast.offset + (i - 1) * etlLast.limit

\* C17: the pregenerated URLs of a collection of N products are one page
\* for each of offset, offset + limit, ...: the pages cover every product
\* from the offset (1 by default) to N, the last one reaches or passes N,
\* and no page starts after N.
C17_Pages ==
    etlLast.op = "generate_urls" =>
        /\ \A i \in DOMAIN etlLast.urls :
               /\ Param(etlLast.urls[i], "offset") = str(PageStart(i))
               /\ Param(etlLast.urls[i], "limit") = str(etlLast.limit)
               /\ PageStart(i) <= etlLast.total
        /\ \A p \in etlLast.offset..etlLast.total :
               \E i \in DOMAIN etlLast.urls :
                   PageStart(i) <= p /\ p < PageStart(i) + etlLast.limit
        /\ etlLast.offset <= etlLast.total =>
               PageStart(Len(etlLast.urls)) + etlLast.limit > etlLast.total

\* several pages, the last one starting at the last product
C17_Witness ==
    /\ etlLast.op = "generate_urls"
    /\ etlLast.offset = 1
    /\ Len(etlLast.urls) >= 2
    /\ PageStart(Len(etlLast.urls)) = etlLast.total

\* the notifications of the last call about a file
Notifications(file) ==
    Cardinality({i \in DOMAIN etlLast.out.notified :
                    etlLast.out.notified[i] = file})

\* the cached catalog files of the collection that fail to parse
FailingFiles ==
    etlLast.bad \cup
    (IF etlLast.voldesc = "Exception" THEN {"voldesc.cat"} ELSE {})

BatchOfCatalogs ==
    {etlLast.urls_list[i] : i \in DOMAIN etlLast.urls_list}

\* the catalogs the discovery of the last batch resolved
ResolvedCatalogs ==
    IF etlLast.parsed THEN etlLast.listed ELSE {}

\* C19 as stated: when the discovery of a collection located a voldesc.cat
\* URL, the batch given to the fetcher holds that URL and the URLs of the
\* resolved catalogs.
C19_VoldescInBatch ==
    etlLast.op = "build_all_urls" /\ etlLast.located =>
        /\ "voldesc.cat" \in BatchOfCatalogs
        /\ ResolvedCatalogs \subseteq BatchOfCatalogs

\* C19 amended: when the discovery of a collection located a voldesc.cat
\* URL and resolved at least one catalog URL, the batch given to the
\* fetcher is the resolved catalog URLs followed by the voldesc.cat URL;
\* when it resolved none, the batch is empty.
C19_VoldescInBatchWithCatalogs ==
    etlLast.op = "build_all_urls" =>
        IF etlLast.located /\ ResolvedCatalogs # {}
        THEN /\ BatchOfCatalogs = ResolvedCatalogs \cup {"voldesc.cat"}
             /\ etlLast.urls_list[Len(etlLast.urls_list)] = "voldesc.cat"
             /\ Len(etlLast.urls_list) = Cardinality(ResolvedCatalogs) + 1
        ELSE etlLast.urls_list = <<>>

\* voldesc.cat and two of the three catalogs it names
C19_Witness ==
    /\ etlLast.op = "build_all_urls"
    /\ etlLast.located
    /\ etlLast.urls_list = <<"mission.cat", "ds2.cat", "voldesc.cat">>

\* the .json files of the directory streamed last
JsonFiles ==
    {i \in DOMAIN etlLast.directory : etlLast.directory[i].ext = ".json"}

\* the .json files whose text is not JSON
Undecodable ==
    {i \in JsonFiles : ~etlLast.directory[i].json}

\* the .json files with a product that has a footprint and lacks a
\* required attribute
Incomplete ==
    {i \in JsonFiles : \E k \in DOMAIN etlLast.directory[i].Product :
                           etlLast.directory[i].Product[k] = "incomplete"}

\* the number of notifications about a file, and of pages yielded from it
NotifiedOf(i) ==
    Cardinality({k \in DOMAIN etlLast.stream.notified :
                    etlLast.stream.notified[k] = [file |-> i, exception |-> "JSONDecodeError"]})

YieldedOf(i) ==
    Cardinality({k \in DOMAIN etlLast.stream.yielded :
                    etlLast.stream.yielded[k].file = i})

C28_OrderedParentsExist ==
    catLast.op = "to_stac_catalogs" /\ "VOL_DESC" \in catLast.keys =>
        /\ ~catLast.raised
        /\ {catLast.handled[i] : i \in DOMAIN catLast.handled} = catLast.keys
        /\ \A i, j \in DOMAIN catLast.handled :
              i < j => SORT_ORDER[catLast.handled[i]] < SORT_ORDER[catLast.handled[j]]

\* ------------------------------------------------------- Locking claims
\* C21: at most one caller holds the lock of a file at any time: a
\* lock_file call returns only in a step in which it has itself created
\* the <file>.lock directory, which did not exist before, and while the
\* directory exists no other lock_file call on the file returns until
\* unlock_file has removed it.
C21_OneHolder ==
    [][\A file \in LockedFiles :
         /\ Cardinality(lockHeld'[file]) <= 1
         /\ lockHeld'[file] # {} => file \o <<".lock">> \in lockDirs'
         /\ \A p \in Callers :
               p \in lockHeld'[file] \ lockHeld[file] =>
                   /\ file \o <<".lock">> \notin lockDirs
                   /\ file \o <<".lock">> \in lockDirs'
         /\ file \o <<".lock">> \in lockDirs /\ lockHeld'[file] # {} =>
               lockHeld'[file] = lockHeld[file]]_vars

\* a caller holds the lock of f and another caller waits in lock_file
C21_Witness ==
    /\ lockHeld[<<"f">>] = {1}
    /\ <<"f", ".lock">> \in lockDirs
    /\ lockPc[2] = <<"f">>

\* --------------------------------------------- catalog discovery claims
\* the step taken after step k of the current collection: its state and
\* the volume id of its URL
StepAfter(k) ==
    IF k < Len(discPath)
    THEN <<discPath[k + 1].state, discPath[k + 1].url>>
    ELSE <<discPc, IF discPc = "ResolveVolumeId" THEN "none" ELSE discUrl>>

\* C22: when no voldesc.cat link is found at the explorer URL built with
\* the volume id of the sample record, the next step scans the listing of
\* the URL without volume id, and when that scan finds the volume the
\* search of voldesc.cat is made again at the URL built with the volume id
\* it discovered.
C22_VolumeIdResolved ==
    \A k \in DOMAIN discPath :
        /\ discPath[k].state = "FindVolDesc" /\ discPath[k].url = "sample"
             /\ discPath[k].outcome # "found" =>
                 /\ StepAfter(k) = <<"ResolveVolumeId", "none">>
                 /\ k < Len(discPath) => <<"explorer", "none">> \in discFetched
        /\ discPath[k].state = "ResolveVolumeId" =>
                 /\ k > 1
                 /\ discPath[k - 1].state = "FindVolDesc"
                 /\ discPath[k - 1].outcome # "found"
                 /\ discPath[k].outcome = "found" =>
                        StepAfter(k) = <<"FindVolDesc", "true">>

\* voldesc.cat found at the second search, after the volume was resolved
C22_Witness ==
    /\ Len(discPath) = 3
    /\ discPath[1] = [state |-> "FindVolDesc", url |-> "sample", outcome |-> "no link"]
    /\ discPath[2] = [state |-> "ResolveVolumeId", url |-> "none", outcome |-> "found"]
    /\ discPath[3] = [state |-> "FindVolDesc", url |-> "true", outcome |-> "found"]
    /\ <<"explorer", "true">> \in discFetched

\* C23: the discovery of a collection always ends (with NoRecord,
\* NoVolDesc, FetchError or Done, or with an exception): no page is fetched
\* again and again without bound.
C23_Terminates ==
    discPc \in {"FindVolDesc", "ResolveVolumeId", "FetchVolDesc", "ListCatalogDir"}
        ~> discPc \in {"Submit", "Aborted"}

\* the cache of the current collection holds no page with a record
NoRecordPage ==
    /\ discTodo < MaxCollections
    /\ \A i \in DOMAIN discCache :
          \/ discCache[i].ext # ".json"
          \/ ~discCache[i].json
          \/ discCache[i].Count = 0
          \/ \A k \in DOMAIN discCache[i].Product :
                discCache[i].Product[k] = "nofootprint"

\* C24: when the cache holds no record page for a collection, the
\* discovery publishes one message for the collection and stops without
\* fetching any URL, and the list of catalog URLs of the collection is
\* empty, as is the batch given to the storage.
C24_NoRecord ==
    NoRecordPage =>
        /\ discEnd = "NoRecord"
        /\ discMsgs = <<"No record">>
        /\ discFetched = {}
        /\ discUrls = <<>>
        /\ discPc \in {"Submit", "Idle"}
        /\ discPc = "Idle" => discBatch = <<>>

\* no record for the second collection, after a first one whose discovery
\* resolved catalogs
C24_Witness ==
    /\ NoRecordPage
    /\ discPc = "Submit"
    /\ discEnd = "NoRecord"
    /\ discBatch = <<"mission.cat", "voldesc.cat">>

\* C25: when the fetch of voldesc.cat fails with an HTTP error, the
\* failure is published as a message for the collection, the collection
\* is skipped, and the bulk download goes on with the other collections.
C25_HttpErrorSkipsCollection ==
    \A k \in DOMAIN discPath :
        discPath[k].state = "FetchVolDesc" /\ discPath[k].outcome = "not ok" =>
            /\ discEnd = "FetchError"
            /\ discMsgs # <<>>
            /\ discPc \in {"Submit", "Idle"}

\* C26: when the listing of the catalog/ directory reports an empty
\* folder, the discovery is not aborted: it goes on with an empty map of
\* names and ends as Done with no catalog URL.
C26_EmptyCatalogDir ==
    \A k \in DOMAIN discPath :
        discPath[k].state = "ListCatalogDir" /\ discPath[k].outcome = "empty" =>
            /\ discEnd = "Done"
            /\ discUrls = <<>>
            /\ discPc \in {"Submit", "Idle"}

\* voldesc.cat found and parsed, and an empty catalog/ directory
C26_Witness ==
    /\ Len(discPath) = 3
    /\ discPath[2].state = "FetchVolDesc" /\ discPath[2].outcome = "ok"
    /\ discPath[3].state = "ListCatalogDir" /\ discPath[3].outcome = "empty"
    /\ discEnd = "Done"
    /\ discMsgs = <<"NoFileExistInFolder">>

\* ------------------------------------- extraction of the records claims
\* the offsets of the pages of a collection of total products, limit
\* products a page: 1, 1 + limit, ... up to total
PageOffsets(total, limit) ==
    {o \in 1..total : (o - 1) % limit = 0}

\* C27: in the step that gives the urls of a collection to its storage
\* for download, the registry already holds the list of the page URLs of
\* the collection and the urls given are that list, or its first page for
\* a sample; in an extraction the list holds the URL of every page of the
\* collection.
C27_SavedBeforeDownload ==
    [][\A i \in DOMAIN pipeIssued' :
         i \in DOMAIN pipeIssued /\ pipeIssued[i] = NotIssued
             /\ pipeIssued'[i] # NotIssued =>
             LET stored == load_urls(h5urls, pipeColls[i])
             IN  /\ stored # <<>>
                 /\ pipeIssued'[i] = IF pipeSample THEN <<stored[1]>> ELSE stored
                 /\ pipeMode = "extract" =>
                       {stored[k] : k \in DOMAIN stored} =
                       {o * 10 + pipeLimit :
                          o \in PageOffsets(pipeColls[i].NumberProducts, pipeLimit)}
                 /\ Cardinality({stored[k] : k \in DOMAIN stored}) = Len(stored)]_vars

\* an extraction of a collection of two pages that has downloaded both
C27_Witness ==
    /\ pipePc = "done"
    /\ pipeMode = "extract"
    /\ pipeIssued[1] = <<11, 21>>
    /\ load_urls(h5urls, pipeColls[1]) = <<11, 21>>

\* ---------------------------------------------- ancestor chain claims
\* the chain of a collection: its body, mission, platform, instrument and
\* the collection itself, each under the one before
ChainOf(c) ==
    <<get_planet_id(c), get_mission_id(c), get_plateform_id(c),
      get_instrument_id(c), get_collection_id(c)>>

\* the collections of the run share an id only along a common chain
SameAncestors(l) ==
    \A i, j \in DOMAIN l :
        /\ l[i].IHID = l[j].IHID => l[i].ODEMetaDB = l[j].ODEMetaDB
        /\ l[i].IID = l[j].IID => l[i].IHID = l[j].IHID
        /\ l[i].DataSetId = l[j].DataSetId => l[i].IID = l[j].IID

\* C29: after the records transform has processed a collection with a new
\* item, the tree holds the body of the collection under the root, its
\* mission under that body, its platform under that mission, its
\* instrument under that platform and the collection under that instrument
C29_ChainExists ==
    \A i \in DOMAIN chainColls :
        \A n \in 1..5 : SubSeq(ChainOf(chainColls[i]), 1, n) \in chainTree

\* every catalog of the tree is under a catalog of the tree
C29_ParentInTree ==
    \A p \in chainTree : Len(p) > 1 => SubSeq(p, 1, Len(p) - 1) \in chainTree

\* the chain exists when no id is shared across two chains
C29_ChainExistsSameAncestors ==
    SameAncestors(chainColls) => C29_ChainExists

====
